---- MODULE Spec2Model ----
(***************************************************************************)
(* Request-lifecycle subsystem of the monitoring demo service:             *)
(*   - the Toggle Store (internal/toggles/errors.go),                      *)
(*   - the bearer-auth and fault-injection middleware and the router       *)
(*     wiring (internal/http),                                             *)
(*   - the Work handler with its in-flight gauge (internal/http,           *)
(*     internal/metrics),                                                  *)
(*   - the shutdown coordinator (cmd/api main / gracefulShutdown),         *)
(*   - the health Checker and its handlers (internal/health).              *)
(*                                                                         *)
(* Several specifications share the variables below; each one drives the   *)
(* part of the state it is about and leaves the rest at its initial value. *)
(*   SpecToggle   : goroutines calling the Toggle Store concurrently,      *)
(*                  one lock operation / field access per step.            *)
(*   SpecAuth     : BearerTokenAuthMiddleware applied to one request.      *)
(*   SpecRouter   : requests served one after another through NewRouter.   *)
(*   SpecShutdown : concurrent work requests, the termination signal and   *)
(*                  gracefulShutdown (FairShutdown adds the scheduling     *)
(*                  fairness).                                             *)
(*   SpecRouterPanic : SpecRouter with a handler that panics.              *)
(*   SpecRouterAll : SpecRouter with /api/v1/work, /metrics and a handler  *)
(*                  that panics.                                           *)
(*   SpecHealth   : checks registered and removed, the force-failure flag  *)
(*                  set, and one GET /readyz step by step.                 *)
(*   SpecWork     : one GET /api/v1/work from its query values to its      *)
(*                  response, with its context and its timer.              *)
(***************************************************************************)
EXTENDS Integers, Sequences, FiniteSets

VARIABLES
    et,         \* ErrorToggle fields: [Enabled, Rate, StatusCode]
    lastSet,    \* history: arguments of the SetConfig call that returned last
                \* (the constructor's values before any call)
    mu,         \* ErrorToggle.mu (sync.RWMutex): [writer, readers]
    th,         \* per goroutine: position inside a Toggle Store call, locals
    auth,       \* SpecAuth: the request given to BearerTokenAuthMiddleware
                \* and what came of it
    httpRequestsTotal,  \* http_requests_total{method, route, status}
    lastReq,    \* SpecRouter: the request served last
    lastResp,   \* SpecRouter: the response it got
    served,     \* SpecRouter: number of requests served so far
    workJobsInflight,   \* work_jobs_inflight gauge
    workFailuresTotal,  \* work_failures_total{operation="simulate_work"}
    reqs,       \* per GET /api/v1/work request: position of its handler,
                \* status sent, IncWorkJobsInflight / DecWorkJobsInflight calls
    mainPc,     \* position of main
    drainPc,    \* position of the goroutine gracefulShutdown starts
    quit,       \* number of signals buffered in the quit channel (capacity 1)
    ctxDone,    \* the shutdown context's deadline has passed
    tickPending,        \* a tick is buffered in ticker.C
    shutdownComplete,   \* the shutdownComplete channel
    listenerOpen,       \* the HTTP server accepts new connections
    gsResult,   \* what gracefulShutdown returned
    exitCode,   \* the process's exit status, -1 while it runs
    flushed,    \* history: metricsRegistry.Flush() was called
    drainStarts,        \* history: number of times the drain goroutine was started
    observedZero,       \* history: a GetInflightJobs() read of the drain loop returned 0
    zeroSeen,   \* history: the gauge was 0 at some moment between the
                \* start of the drain and the deadline
    deadlineInflight,   \* history: the gauge when the deadline passed, -1 before
    checks,     \* health.Checker.checks: name -> what the CheckFunc returns
    forceFailure,       \* health.Checker.forceFailure
    hc,         \* SpecHealth: the GET /readyz being served: position inside
                \* ReadinessHandler / CheckReadiness, its locals, its response
    forceHist,  \* SpecHealth, history: [last, ever]: the argument of the last
                \* SetForceFailure call (false before any), and whether some
                \* call set the flag
    wk          \* SpecWork: the GET /api/v1/work being served: query values,
                \* position inside Work / simulateWork, its context, its response

toggleVars == <<et, lastSet, mu, th>>

authVars == <<auth>>

routerVars == <<httpRequestsTotal, lastReq, lastResp, served>>

shutdownVars == <<workJobsInflight, workFailuresTotal, reqs, mainPc, drainPc, quit,
                  ctxDone, tickPending, shutdownComplete, listenerOpen, gsResult,
                  exitCode, flushed, drainStarts, observedZero, zeroSeen,
                  deadlineInflight>>

healthVars == <<checks, forceFailure, hc, forceHist>>

workVars == <<wk>>

vars == <<et, lastSet, mu, th, auth, httpRequestsTotal, lastReq, lastResp, served,
          workJobsInflight, workFailuresTotal, reqs, mainPc, drainPc, quit,
          ctxDone, tickPending, shutdownComplete, listenerOpen, gsResult,
          exitCode, flushed, drainStarts, observedZero, zeroSeen, deadlineInflight,
          checks, forceFailure, hc, forceHist, wk>>

(***************************************************************************)
(* Numbers.  A rate or a random sample is k/Granularity, written k: the    *)
(* rate 1.0 is Granularity, rand.Float64() yields 0 .. Granularity-1.      *)
(***************************************************************************)
Granularity == 2

RateOne == Granularity

\* float64 values handed to the store: below 0, inside [0,1], above 1
Rates == -1 .. (Granularity + 1)

\* rand.Float64(): uniformly in [0.0, 1.0)
Samples == 0 .. (Granularity - 1)

\* status codes handed to the store: the zero value of a missing field, a
\* 5xx code, a code above the 5xx range
StatusCodes == {0, 503, 600}

Triple(e, r, c) == [Enabled |-> e, Rate |-> r, StatusCode |-> c]

\* NewErrorToggle(): {Enabled: false, Rate: 0.0, StatusCode: 500}
NewErrorToggle == Triple(FALSE, 0, 500)

(***************************************************************************)
(* ShouldInjectError as a function of the stored triple and the sample     *)
(* drawn: <<inject, status>>.                                              *)
(***************************************************************************)
ShouldInjectError(cfg, sample) ==
    IF ~cfg.Enabled
    THEN <<FALSE, 0>>
    ELSE IF sample < cfg.Rate THEN <<TRUE, cfg.StatusCode>> ELSE <<FALSE, 0>>

(***************************************************************************)
(* SpecToggle: the Toggle Store under concurrent callers.                  *)
(* Every lock operation and every field access is a step of its own, so a  *)
(* reader can run between two field writes unless the mutex forbids it.    *)
(***************************************************************************)
Threads == {"g1", "g2"}

NoThread == "none"

\* arguments callers hand to SetConfig: the store validates nothing
SetArgs == {Triple(e, r, c) : e \in BOOLEAN, r \in Rates, c \in StatusCodes}

NoRet == <<>>

\* a goroutine outside any Toggle Store call
Idle == [pc |-> "idle", args |-> NewErrorToggle, e |-> FALSE, r |-> 0,
         sample |-> 0, ret |-> NoRet]

\* sync.RWMutex: Lock waits until no writer and no reader holds the mutex
CanLockUnguarded(m) == TRUE

CanLock(m) == m.writer = NoThread /\ m.readers = {}

\* sync.RWMutex: RLock waits until no writer holds the mutex
CanRLock(m) == m.writer = NoThread

InitToggle ==
    /\ et = NewErrorToggle
    /\ lastSet = NewErrorToggle
    /\ mu = [writer |-> NoThread, readers |-> {}]
    /\ th = [t \in Threads |-> Idle]

\* ---- SetConfig(enabled, rate, statusCode) ----
SetConfigCall(t, a) ==
    /\ th[t].pc = "idle"
    /\ th' = [th EXCEPT ![t].pc = "set_lock", ![t].args = a]
    /\ UNCHANGED <<et, lastSet, mu>>

SetConfigLock(t) ==
    /\ th[t].pc = "set_lock"
    /\ CanLock(mu)
    /\ mu' = [mu EXCEPT !.writer = t]
    /\ th' = [th EXCEPT ![t].pc = "set_enabled"]
    /\ UNCHANGED <<et, lastSet>>

SetConfigEnabled(t) ==
    /\ th[t].pc = "set_enabled"
    /\ et' = [et EXCEPT !.Enabled = th[t].args.Enabled]
    /\ th' = [th EXCEPT ![t].pc = "set_rate"]
    /\ UNCHANGED <<mu, lastSet>>

SetConfigRate(t) ==
    /\ th[t].pc = "set_rate"
    /\ et' = [et EXCEPT !.Rate = th[t].args.Rate]
    /\ th' = [th EXCEPT ![t].pc = "set_status"]
    /\ UNCHANGED <<mu, lastSet>>

SetConfigStatusCode(t) ==
    /\ th[t].pc = "set_status"
    /\ et' = [et EXCEPT !.StatusCode = th[t].args.StatusCode]
    /\ th' = [th EXCEPT ![t].pc = "set_unlock"]
    /\ UNCHANGED <<mu, lastSet>>

\* deferred et.mu.Unlock(), then return
SetConfigUnlock(t) ==
    /\ th[t].pc = "set_unlock"
    /\ mu' = [mu EXCEPT !.writer = NoThread]
    /\ lastSet' = th[t].args
    /\ th' = [th EXCEPT ![t] = Idle]
    /\ UNCHANGED et

\* ---- GetConfig() ----
GetConfigCall(t) ==
    /\ th[t].pc = "idle"
    /\ th' = [th EXCEPT ![t].pc = "get_rlock"]
    /\ UNCHANGED <<et, lastSet, mu>>

GetConfigRLock(t) ==
    /\ th[t].pc = "get_rlock"
    /\ CanRLock(mu)
    /\ mu' = [mu EXCEPT !.readers = @ \cup {t}]
    /\ th' = [th EXCEPT ![t].pc = "get_enabled"]
    /\ UNCHANGED <<et, lastSet>>

GetConfigEnabled(t) ==
    /\ th[t].pc = "get_enabled"
    /\ th' = [th EXCEPT ![t].pc = "get_rate", ![t].e = et.Enabled]
    /\ UNCHANGED <<et, lastSet, mu>>

GetConfigRate(t) ==
    /\ th[t].pc = "get_rate"
    /\ th' = [th EXCEPT ![t].pc = "get_status", ![t].r = et.Rate]
    /\ UNCHANGED <<et, lastSet, mu>>

GetConfigStatusCode(t) ==
    /\ th[t].pc = "get_status"
    /\ th' = [th EXCEPT ![t].pc = "get_runlock",
                        ![t].ret = <<th[t].e, th[t].r, et.StatusCode>>]
    /\ UNCHANGED <<et, lastSet, mu>>

\* deferred et.mu.RUnlock(), then the three values are returned
GetConfigRUnlock(t) ==
    /\ th[t].pc = "get_runlock"
    /\ mu' = [mu EXCEPT !.readers = @ \ {t}]
    /\ th' = [th EXCEPT ![t].pc = "get_ret"]
    /\ UNCHANGED <<et, lastSet>>

\* ---- ShouldInjectError() ----
ShouldInjectErrorCall(t) ==
    /\ th[t].pc = "idle"
    /\ th' = [th EXCEPT ![t].pc = "sie_rlock"]
    /\ UNCHANGED <<et, lastSet, mu>>

ShouldInjectErrorRLock(t) ==
    /\ th[t].pc = "sie_rlock"
    /\ CanRLock(mu)
    /\ mu' = [mu EXCEPT !.readers = @ \cup {t}]
    /\ th' = [th EXCEPT ![t].pc = "sie_enabled"]
    /\ UNCHANGED <<et, lastSet>>

\* the Enabled test skipped: the decision is taken from the rate alone
ShouldInjectErrorEnabledSkipped(t) ==
    /\ th[t].pc = "sie_enabled"
    /\ th' = [th EXCEPT ![t].e = et.Enabled,
                        ![t].pc = "sie_rate"]
    /\ UNCHANGED <<et, lastSet, mu>>

\* if !et.Enabled { return false, 0 }
ShouldInjectErrorEnabled(t) ==
    /\ th[t].pc = "sie_enabled"
    /\ th' = [th EXCEPT ![t].e = et.Enabled,
                        ![t].pc = IF et.Enabled THEN "sie_rate" ELSE "sie_runlock",
                        ![t].ret = IF et.Enabled THEN NoRet ELSE <<FALSE, 0>>]
    /\ UNCHANGED <<et, lastSet, mu>>

\* the comparison written rand.Float64() <= et.Rate
ShouldInjectErrorRateInclusive(t) ==
    /\ th[t].pc = "sie_rate"
    /\ \E s \in Samples :
         th' = [th EXCEPT ![t].sample = s, ![t].r = et.Rate,
                          ![t].pc = IF s <= et.Rate THEN "sie_status" ELSE "sie_runlock",
                          ![t].ret = IF s <= et.Rate THEN NoRet ELSE <<FALSE, 0>>]
    /\ UNCHANGED <<et, lastSet, mu>>

\* if rand.Float64() < et.Rate { ... } ; return false, 0
ShouldInjectErrorRate(t) ==
    /\ th[t].pc = "sie_rate"
    /\ \E s \in Samples :
         th' = [th EXCEPT ![t].sample = s, ![t].r = et.Rate,
                          ![t].pc = IF s < et.Rate THEN "sie_status" ELSE "sie_runlock",
                          ![t].ret = IF s < et.Rate THEN NoRet ELSE <<FALSE, 0>>]
    /\ UNCHANGED <<et, lastSet, mu>>

\* return true, et.StatusCode
ShouldInjectErrorStatusCode(t) ==
    /\ th[t].pc = "sie_status"
    /\ th' = [th EXCEPT ![t].pc = "sie_runlock",
                        ![t].ret = <<TRUE, et.StatusCode>>]
    /\ UNCHANGED <<et, lastSet, mu>>

\* deferred et.mu.RUnlock(), then the pair is returned
ShouldInjectErrorRUnlock(t) ==
    /\ th[t].pc = "sie_runlock"
    /\ mu' = [mu EXCEPT !.readers = @ \ {t}]
    /\ th' = [th EXCEPT ![t].pc = "sie_ret"]
    /\ UNCHANGED <<et, lastSet>>

\* the caller has the result and goes on to its next call
Return(t) ==
    /\ th[t].pc \in {"get_ret", "sie_ret"}
    /\ th' = [th EXCEPT ![t] = Idle]
    /\ UNCHANGED <<et, lastSet, mu>>

ToggleStep(t) ==
    \/ \E a \in SetArgs : SetConfigCall(t, a)
    \/ SetConfigLock(t)
    \/ SetConfigEnabled(t)
    \/ SetConfigRate(t)
    \/ SetConfigStatusCode(t)
    \/ SetConfigUnlock(t)
    \/ GetConfigCall(t)
    \/ GetConfigRLock(t)
    \/ GetConfigEnabled(t)
    \/ GetConfigRate(t)
    \/ GetConfigStatusCode(t)
    \/ GetConfigRUnlock(t)
    \/ ShouldInjectErrorCall(t)
    \/ ShouldInjectErrorRLock(t)
    \/ ShouldInjectErrorEnabled(t)
    \/ ShouldInjectErrorRate(t)
    \/ ShouldInjectErrorStatusCode(t)
    \/ ShouldInjectErrorRUnlock(t)
    \/ Return(t)

NextToggle == \E t \in Threads : ToggleStep(t)

(***************************************************************************)
(* Strings are sequences of characters.                                    *)
(***************************************************************************)
\* const bearerPrefix = "Bearer "
bearerPrefix == <<"B", "e", "a", "r", "e", "r", " ">>

\* authHeader[len(bearerPrefix):]
TrimPrefix(h) == SubSeq(h, Len(bearerPrefix) + 1, Len(h))

StatusOK == 200

StatusBadRequest == 400

StatusUnauthorized == 401

StatusRequestTimeout == 408

StatusServiceUnavailable == 503

StatusGatewayTimeout == 504

(***************************************************************************)
(* BearerTokenAuthMiddleware: "next" when the wrapped handler is invoked,  *)
(* else the message sent with 401.                                         *)
(***************************************************************************)
BearerTokenAuthPrefixOnly(authHeader, adminToken) ==
    IF authHeader = <<>>
    THEN "Authorization header required"
    ELSE IF \/ Len(authHeader) < Len(bearerPrefix)
            \/ SubSeq(authHeader, 1, Len(bearerPrefix)) # bearerPrefix
         THEN "Invalid authorization format. Expected 'Bearer <token>'"
         ELSE "next"

BearerTokenAuth(authHeader, adminToken) ==
    IF authHeader = <<>>
    THEN "Authorization header required"
    ELSE IF \/ Len(authHeader) < Len(bearerPrefix)
            \/ SubSeq(authHeader, 1, Len(bearerPrefix)) # bearerPrefix
         THEN "Invalid authorization format. Expected 'Bearer <token>'"
         ELSE IF TrimPrefix(authHeader) # adminToken
              THEN "Invalid token"
              ELSE "next"

(***************************************************************************)
(* SpecAuth: the middleware applied to one request, for every header and   *)
(* admin token of the sets below.                                          *)
(***************************************************************************)
MaxTokenLen == 2

TokenChars == {"t", "u"}

Tokens == UNION {[1 .. n -> TokenChars] : n \in 0 .. MaxTokenLen}

HeaderPrefixes ==
    { <<>>,
      bearerPrefix,
      <<"B", "e", "a", "r", "e", "r">>,
      <<"b", "e", "a", "r", "e", "r", " ">>,
      <<"B", "a", "s", "i", "c", " ">>,
      bearerPrefix \o <<" ">>,
      <<" ">> \o bearerPrefix }

AuthHeaders == {p \o t : p \in HeaderPrefixes, t \in Tokens}

NoAuth == [pc |-> "none", header |-> <<>>, adminToken |-> <<>>, status |-> 0,
           nextCalls |-> 0]

InitAuth ==
    \E h \in AuthHeaders, a \in Tokens :
        auth = [pc |-> "request", header |-> h, adminToken |-> a, status |-> 0,
                nextCalls |-> 0]

\* the middleware serves the request; the wrapped handler answers 200
ServeBearerTokenAuth ==
    /\ auth.pc = "request"
    /\ LET out == BearerTokenAuth(auth.header, auth.adminToken) IN
         auth' = [auth EXCEPT
                    !.pc = "done",
                    !.nextCalls = IF out = "next" THEN @ + 1 ELSE @,
                    !.status = IF out = "next" THEN StatusOK ELSE StatusUnauthorized]

NextAuth == ServeBearerTokenAuth

(***************************************************************************)
(* SpecRouter: requests served one after another through NewRouter.        *)
(* A result is what a handler (with the middleware inside it) leaves       *)
(* behind: the status and body sent, whether the response header was       *)
(* written, and the Toggle Store contents afterwards.                      *)
(***************************************************************************)
MaxServed == 2

StatusInternalServerError == 500

\* cfg.AdminToken, a configured non-empty token
AdminToken == <<"t">>

RouterAuthHeaders == {<<>>, bearerPrefix \o AdminToken, bearerPrefix \o <<"u">>}

\* a request body.  text tells what the bytes are: "object" is one JSON
\* object, "object garbage" is one JSON object followed by bytes that are
\* not JSON, "garbage" is not JSON from its first byte on.  The fields are the
\* object's values; a field the object leaves out decodes to its zero value.
Body(e, r, c) ==
    [text |-> "object", Enabled |-> e, Rate |-> r, StatusCode |-> c, ForceFailure |-> FALSE]

InvalidJSON ==
    [text |-> "garbage", Enabled |-> FALSE, Rate |-> 0, StatusCode |-> 0,
     ForceFailure |-> FALSE]

NoBody == InvalidJSON

\* json.NewDecoder(r.Body).Decode(&req) reads the next JSON value of the
\* stream and returns nil when that value decodes; it does not look at what
\* follows the value
Decode(body) == body.text \in {"object", "object garbage"}

BodyStatusCodes == StatusCodes \cup {499, 500, 599}

\* rates at and beyond the ends of [0.0, 1.0]
BodyRates == {-1, 0, RateOne, RateOne + 1}

ErrorRateBodies ==
    {InvalidJSON}
        \cup {Body(e, r, c) : e \in BOOLEAN, r \in BodyRates, c \in BodyStatusCodes}
        \cup {[Body(e, RateOne, 503) EXCEPT !.text = "object garbage"] : e \in BOOLEAN}

ReadinessBodies ==
    {InvalidJSON}
        \cup {[Body(FALSE, 0, 0) EXCEPT !.ForceFailure = f] : f \in BOOLEAN}
        \cup {[Body(FALSE, 0, 0) EXCEPT !.ForceFailure = TRUE, !.text = "object garbage"]}

\* what a handler, with the middleware inside it, leaves behind.  echo: the
\* request values a JSON response repeats (none: {}); cfg, force: the
\* Toggle Store and the force-failure flag afterwards; ran: the middleware
\* and the handler entered, in order; panicked: a panic is unwinding
Result(status, body, cfg) ==
    [status |-> status, body |-> body, echo |-> {}, wroteHeader |-> TRUE, cfg |-> cfg,
     force |-> forceFailure, ran |-> <<>>, panicked |-> FALSE,
     log |-> [status |-> 0, bytes |-> ""], injectCalls |-> <<>>]

\* `name` was entered before everything of res
Ran(name, res) == [res EXCEPT !.ran = <<name>> \o @]

\* cfg, before: the Toggle Store and http_requests_total when the request
\* arrived
NoRequest == [method |-> "", path |-> "", header |-> <<>>, body |-> NoBody,
              cfg |-> NewErrorToggle, before |-> <<>>]

\* log: the "Request completed" entry, [status, bytes]; bytes stands for the
\* count of what it names
NoLog == [status |-> 0, bytes |-> ""]

NoResponse == [status |-> 0, body |-> "", echo |-> {}, wroteHeader |-> FALSE,
               ran |-> <<>>, recovered |-> FALSE, log |-> NoLog, injectCalls |-> <<>>]

\* APIHandlers.Ping
Ping(cfg) == Ran("Ping", Result(StatusOK, "pong", cfg))

\* HealthHandlers.Liveness / health.LivenessHandler
Liveness(cfg) == Ran("Liveness", Result(StatusOK, "OK", cfg))

\* HealthHandlers.Readiness / health.ReadinessHandler; NewRouter registers no
\* check on its Checker, so CheckReadiness fails only when forced
Readiness(cfg) ==
    Ran("Readiness",
        IF forceFailure
        THEN Result(StatusServiceUnavailable,
                    "Not Ready: health check failed for forced: readiness check forced to fail for testing",
                    cfg)
        ELSE Result(StatusOK, "Ready", cfg))

\* HealthHandlers.ToggleReadiness
ToggleReadiness(body, cfg) ==
    Ran("ToggleReadiness",
        IF ~Decode(body)
        THEN Result(StatusBadRequest, "Invalid JSON", cfg)
        ELSE [Result(StatusOK, "Readiness check toggle updated", cfg)
                EXCEPT !.force = body.ForceFailure,
                       !.echo = {[ForceFailure |-> body.ForceFailure]}])

\* ErrorRate without the range check on status_code
ErrorRateStatusUnchecked(body, cfg) ==
    Ran("ErrorRate",
        IF ~Decode(body)
        THEN Result(StatusBadRequest, "Invalid JSON", cfg)
        ELSE IF body.Rate < 0 \/ body.Rate > RateOne
             THEN Result(StatusBadRequest, "Rate must be between 0.0 and 1.0", cfg)
             ELSE [Result(StatusOK, "Error injection toggle updated",
                          Triple(body.Enabled, body.Rate, body.StatusCode))
                     EXCEPT !.echo = {Triple(body.Enabled, body.Rate, body.StatusCode)}])

\* ErrorRate with the range checks applied to enabling requests only
ErrorRateDisableUnchecked(body, cfg) ==
    Ran("ErrorRate",
        IF ~Decode(body)
        THEN Result(StatusBadRequest, "Invalid JSON", cfg)
        ELSE IF body.Enabled /\ (body.Rate < 0 \/ body.Rate > RateOne)
             THEN Result(StatusBadRequest, "Rate must be between 0.0 and 1.0", cfg)
             ELSE IF body.Enabled /\ (body.StatusCode < 500 \/ body.StatusCode > 599)
                  THEN Result(StatusBadRequest, "Status code must be between 500 and 599", cfg)
                  ELSE [Result(StatusOK, "Error injection toggle updated",
                               Triple(body.Enabled, body.Rate, body.StatusCode))
                          EXCEPT !.echo = {Triple(body.Enabled, body.Rate, body.StatusCode)}])

\* ToggleHandlers.ErrorRate
ErrorRate(body, cfg) ==
    Ran("ErrorRate",
        IF ~Decode(body)
        THEN Result(StatusBadRequest, "Invalid JSON", cfg)
        ELSE IF body.Rate < 0 \/ body.Rate > RateOne
             THEN Result(StatusBadRequest, "Rate must be between 0.0 and 1.0", cfg)
             ELSE IF body.StatusCode < 500 \/ body.StatusCode > 599
                  THEN Result(StatusBadRequest, "Status code must be between 500 and 599", cfg)
                  ELSE [Result(StatusOK, "Error injection toggle updated",
                               Triple(body.Enabled, body.Rate, body.StatusCode))
                          EXCEPT !.echo = {Triple(body.Enabled, body.Rate, body.StatusCode)}])

\* a handler that panics before it writes anything
Panic(cfg) ==
    Ran("panic", [Result(0, "", cfg) EXCEPT !.wroteHeader = FALSE, !.panicked = TRUE])

\* a handler that panics after it has written its header and some body
PanicAfterWrite(cfg) ==
    Ran("panic after write", [Result(StatusOK, "partial", cfg) EXCEPT !.panicked = TRUE])

\* the middleware that lets every request through
BearerTokenAuthMiddlewareOpen(header, next, cfg) ==
    Ran("BearerTokenAuthMiddleware", next)

\* BearerTokenAuthMiddleware(cfg.AdminToken) around `next`
BearerTokenAuthMiddleware(header, next, cfg) ==
    LET out == BearerTokenAuth(header, AdminToken) IN
    Ran("BearerTokenAuthMiddleware",
        IF out = "next" THEN next ELSE Result(StatusUnauthorized, out, cfg))

\* the injected response written, and next.ServeHTTP called all the same
ErrorInjectionMiddlewareFallsThrough(sample, next, cfg) ==
    LET inj == ShouldInjectError(cfg, sample) IN
    Ran("ErrorInjectionMiddleware",
        [next EXCEPT !.injectCalls = <<inj>> \o @,
                     !.status = IF inj[1] THEN inj[2] ELSE @,
                     !.body = IF inj[1] THEN "Injected error for testing" ELSE @])

\* ErrorInjectionMiddleware(errorToggle) around `next`; injectCalls: what
\* each call of toggle.ShouldInjectError() returned
ErrorInjectionMiddleware(sample, next, cfg) ==
    LET inj == ShouldInjectError(cfg, sample) IN
    Ran("ErrorInjectionMiddleware",
        IF inj[1]
        THEN [Result(inj[2], "Injected error for testing", cfg)
                EXCEPT !.injectCalls = <<inj>>]
        ELSE [next EXCEPT !.injectCalls = <<inj>> \o @])

\* chi middleware.Timeout(60): its deferred function runs when the handler
\* returns or panics; when the 60ns deadline has passed by then it calls
\* WriteHeader(504), which the response writer ignores once a header was
\* written
Timeout(expired, next) ==
    IF expired /\ ~next.wroteHeader
    THEN [next EXCEPT !.status = StatusGatewayTimeout, !.wroteHeader = TRUE]
    ELSE next

\* LoggingMiddleware: its deferred function, which runs when next.ServeHTTP
\* returned or while its panic unwinds, logs ww.Status() and
\* ww.BytesWritten(): what was written through its wrapper so far (status 0
\* when no header was)
LoggingMiddleware(next) ==
    [next EXCEPT !.log = [status |-> IF next.wroteHeader THEN next.status ELSE 0,
                          bytes |-> next.body]]

\* PanicRecoveryMiddleware: recover(), then http.Error(w, "Internal Server
\* Error", 500), whose WriteHeader is ignored once a header was written and
\* whose text is written after what was written before
PanicRecoveryMiddleware(next) ==
    IF next.panicked
    THEN [next EXCEPT !.panicked = FALSE,
                      !.status = IF next.wroteHeader THEN @ ELSE StatusInternalServerError,
                      !.wroteHeader = TRUE,
                      !.body = @ \o "Internal Server Error"]
    ELSE next

\* a counter that is set rather than incremented
RecordHTTPRequestSet(m, method, route, status) ==
    LET l == <<method, route, status>> IN
    [x \in DOMAIN m \cup {l} |-> IF x = l THEN 1 ELSE m[x]]

\* Registry.RecordHTTPRequest: httpRequestsTotal.WithLabelValues(...).Inc()
RecordHTTPRequest(m, method, route, status) ==
    LET l == <<method, route, status>> IN
    [x \in DOMAIN m \cup {l} |->
        IF x = l THEN (IF l \in DOMAIN m THEN m[l] + 1 ELSE 1) ELSE m[x]]

InitRouter ==
    /\ httpRequestsTotal = <<>>
    /\ lastReq = NoRequest
    /\ lastResp = NoResponse
    /\ served = 0

\* NewRouter's r.Use(...) calls, in their order: the first is the outermost
Use == <<"RequestID", "RequestIDMiddleware", "PanicRecoveryMiddleware",
         "LoggingMiddleware", "PrometheusMiddleware", "Timeout">>

\* the pipeline of r.Use(...) around a routed handler's result `res`:
\* PrometheusMiddleware records the status after its next.ServeHTTP returned
\* (a panic passes it by), LoggingMiddleware only logs, PanicRecoveryMiddleware
\* answers a panic; then the request is answered
Pipeline(method, route, header, body, expired, res) ==
    LET inner == Timeout(expired, res)
        out == PanicRecoveryMiddleware(LoggingMiddleware(inner))
    IN
    /\ served < MaxServed
    /\ served' = served + 1
    /\ lastReq' = [method |-> method, path |-> route, header |-> header, body |-> body,
                   cfg |-> et, before |-> httpRequestsTotal]
    /\ lastResp' = [status |-> out.status, body |-> out.body, echo |-> out.echo,
                    wroteHeader |-> out.wroteHeader, ran |-> Use \o out.ran,
                    recovered |-> inner.panicked, log |-> out.log,
                    injectCalls |-> out.injectCalls]
    /\ httpRequestsTotal' =
         IF inner.panicked THEN httpRequestsTotal
         ELSE RecordHTTPRequest(httpRequestsTotal, method, route, inner.status)
    /\ et' = out.cfg
    /\ lastSet' = out.cfg
    /\ forceFailure' = out.force
    /\ UNCHANGED <<mu, th>>

\* route /api/v1: r.Use(ErrorInjectionMiddleware); /toggles inside it:
\* r.Use(BearerTokenAuthMiddleware); r.Post("/error-rate", ErrorRate)
RouteErrorRate(header, body, sample) ==
    ErrorInjectionMiddleware(sample,
        BearerTokenAuthMiddleware(header, ErrorRate(body, et), et), et)

\* the same; r.Post("/readiness", ToggleReadiness)
RouteReadiness(header, body, sample) ==
    ErrorInjectionMiddleware(sample,
        BearerTokenAuthMiddleware(header, ToggleReadiness(body, et), et), et)

\* route /api/v1: r.Get("/ping", Ping)
RoutePing(sample) == ErrorInjectionMiddleware(sample, Ping(et), et)

\* /healthz mounted inside the /api/v1 group
RouteHealthzInjected(sample) == ErrorInjectionMiddleware(sample, Liveness(et), et)

\* r.Get("/healthz", Liveness), outside the /api/v1 group; the sample is
\* not drawn
RouteHealthz(sample) == Liveness(et)

\* r.Get("/readyz", Readiness), outside the /api/v1 group
RouteReadyz == Readiness(et)

\* APIHandlers.Work as one step: IncWorkJobsInflight, simulateWork with the
\* outcome of its select, the response, the deferred DecWorkJobsInflight
Work(outcome, cfg) ==
    Ran("Work",
        IF outcome = "cancelled"
        THEN Result(StatusRequestTimeout, "Work simulation cancelled", cfg)
        ELSE Result(StatusOK, "work completed", cfg))

\* route /api/v1: r.Get("/work", Work)
RouteWork(sample, outcome) == ErrorInjectionMiddleware(sample, Work(outcome, et), et)

\* /metrics mounted inside the /api/v1 group
RouteMetricsInjected(sample) ==
    ErrorInjectionMiddleware(sample, Ran("Metrics", Result(StatusOK, "metrics", et)), et)

\* r.Handle("/metrics", metricsRegistry.GetHandler()), outside the /api/v1
\* group; the sample is not drawn
RouteMetrics(sample) == Ran("Metrics", Result(StatusOK, "metrics", et))

\* a panicking handler mounted where Ping is
RoutePanic(sample) == ErrorInjectionMiddleware(sample, Panic(et), et)

RoutePanicAfterWrite(sample) == ErrorInjectionMiddleware(sample, PanicAfterWrite(et), et)

PostErrorRate ==
    \E h \in RouterAuthHeaders, b \in ErrorRateBodies, s \in Samples, x \in BOOLEAN :
        Pipeline("POST", "/api/v1/toggles/error-rate", h, b, x, RouteErrorRate(h, b, s))

PostReadiness ==
    \E h \in RouterAuthHeaders, b \in ReadinessBodies, s \in Samples, x \in BOOLEAN :
        Pipeline("POST", "/api/v1/toggles/readiness", h, b, x, RouteReadiness(h, b, s))

GetPing ==
    \E s \in Samples, x \in BOOLEAN :
        Pipeline("GET", "/api/v1/ping", <<>>, NoBody, x, RoutePing(s))

GetHealthz ==
    \E s \in Samples, x \in BOOLEAN :
        Pipeline("GET", "/healthz", <<>>, NoBody, x, RouteHealthz(s))

GetReadyz ==
    \E x \in BOOLEAN :
        Pipeline("GET", "/readyz", <<>>, NoBody, x, RouteReadyz)

GetPanic ==
    \E s \in Samples, x \in BOOLEAN :
        Pipeline("GET", "/api/v1/ping", <<>>, NoBody, x, RoutePanic(s))

NextRouter == PostErrorRate \/ PostReadiness \/ GetPing \/ GetHealthz \/ GetReadyz

GetPanicAfterWrite ==
    \E s \in Samples, x \in BOOLEAN :
        Pipeline("GET", "/api/v1/ping", <<>>, NoBody, x, RoutePanicAfterWrite(s))

NextRouterPanic == NextRouter \/ GetPanic \/ GetPanicAfterWrite

\* IncWorkFailures("simulate_work") when the handler was reached and
\* simulateWork returned ctx.Err()
GetWork ==
    \E s \in Samples, x \in BOOLEAN, o \in {"completed", "cancelled"} :
        LET res == RouteWork(s, o) IN
        /\ Pipeline("GET", "/api/v1/work", <<>>, NoBody, x, res)
        /\ workFailuresTotal' = IF res.status = StatusRequestTimeout
                                THEN workFailuresTotal + 1
                                ELSE workFailuresTotal

GetMetrics ==
    \E s \in Samples, x \in BOOLEAN :
        Pipeline("GET", "/metrics", <<>>, NoBody, x, RouteMetrics(s))

\* every route of NewRouter, and a handler that panics
NextRouterAll ==
    \/ (NextRouter \/ GetPanic) /\ UNCHANGED workFailuresTotal
    \/ GetWork
    \/ GetMetrics /\ UNCHANGED workFailuresTotal

(***************************************************************************)
(* SpecShutdown: GET /api/v1/work requests served concurrently, the        *)
(* termination signal, main and gracefulShutdown.  Time is not measured:   *)
(* the ticker's ticks, the work timers and the shutdown deadline fire in   *)
(* any order.  The Toggle Store keeps its initial, disabled configuration, *)
(* so no work request is answered by fault injection.                      *)
(***************************************************************************)
MaxWork == 2

Reqs == 1 .. MaxWork

\* shutdownComplete := make(chan error, 1)
ShutdownCompleteCap == 1

Nil == "nil"

DeadlineExceeded == "context deadline exceeded"

ListenerError == "listener close error"

\* late: the request was accepted after the drain loop had ended and before
\* server.Shutdown was called
NewRequest == [pc |-> "new", status |-> 0, inc |-> 0, dec |-> 0, late |-> FALSE]

\* positions of the drain goroutine inside its for/select loop
DrainPolling == {"select", "recheck"}

\* after os.Exit or the return of main no goroutine of the process runs
ProcessAlive == mainPc # "exited"

\* Registry.GetInflightJobs(): the current value of the gauge
GetInflightJobs == workJobsInflight

InitShutdown ==
    /\ workJobsInflight = 0
    /\ workFailuresTotal = 0
    /\ reqs = [r \in Reqs |-> NewRequest]
    /\ mainPc = "wait_signal"
    /\ drainPc = "none"
    /\ quit = 0
    /\ ctxDone = FALSE
    /\ tickPending = FALSE
    /\ shutdownComplete = <<>>
    /\ listenerOpen = TRUE
    /\ gsResult = "none"
    /\ exitCode = -1
    /\ flushed = FALSE
    /\ drainStarts = 0
    /\ observedZero = FALSE
    /\ zeroSeen = FALSE
    /\ deadlineInflight = -1

\* zeroSeen after a step that leaves the gauge at g
ZeroSeenAfter(g) ==
    zeroSeen \/ (g = 0 /\ mainPc # "wait_signal" /\ ~ctxDone)

\* APIHandlers.Work up to its select: the server accepts the request, the
\* handler parses the query, h.metrics.IncWorkJobsInflight()
WorkStart(r) ==
    /\ ProcessAlive
    /\ listenerOpen
    /\ reqs[r].pc = "new"
    /\ workJobsInflight' = workJobsInflight + 1
    /\ reqs' = [reqs EXCEPT ![r].pc = "working", ![r].inc = @ + 1,
                            ![r].late = (drainPc = "shutdown")]
    /\ UNCHANGED <<workFailuresTotal, httpRequestsTotal, mainPc, drainPc, quit, ctxDone,
                   tickPending, shutdownComplete, listenerOpen, gsResult, exitCode,
                   flushed, drainStarts, observedZero, zeroSeen, deadlineInflight>>

\* simulateWork: case <-time.After(duration); 200; deferred DecWorkJobsInflight
WorkCompleted(r) ==
    /\ ProcessAlive
    /\ reqs[r].pc = "working"
    /\ workJobsInflight' = workJobsInflight - 1
    /\ reqs' = [reqs EXCEPT ![r].pc = "done", ![r].status = StatusOK, ![r].dec = @ + 1]
    /\ httpRequestsTotal' =
         RecordHTTPRequest(httpRequestsTotal, "GET", "/api/v1/work", StatusOK)
    /\ zeroSeen' = ZeroSeenAfter(workJobsInflight - 1)
    /\ UNCHANGED <<workFailuresTotal, mainPc, drainPc, quit, ctxDone, tickPending,
                   shutdownComplete, listenerOpen, gsResult, exitCode, flushed,
                   drainStarts, observedZero, deadlineInflight>>

\* the cancellation path with the decrement left out
WorkCancelledNoDec(r) ==
    /\ ProcessAlive
    /\ reqs[r].pc = "working"
    /\ workFailuresTotal' = workFailuresTotal + 1
    /\ reqs' = [reqs EXCEPT ![r].pc = "done", ![r].status = StatusRequestTimeout]
    /\ httpRequestsTotal' =
         RecordHTTPRequest(httpRequestsTotal, "GET", "/api/v1/work", StatusRequestTimeout)
    /\ UNCHANGED <<workJobsInflight, mainPc, drainPc, quit, ctxDone, tickPending,
                   shutdownComplete, listenerOpen, gsResult, exitCode, flushed,
                   drainStarts, observedZero, zeroSeen, deadlineInflight>>

\* simulateWork: case <-ctx.Done() (the client went away, or the pipeline's
\* request timeout passed); IncWorkFailures("simulate_work"); 408; deferred
\* DecWorkJobsInflight
WorkCancelled(r) ==
    /\ ProcessAlive
    /\ reqs[r].pc = "working"
    /\ workFailuresTotal' = workFailuresTotal + 1
    /\ workJobsInflight' = workJobsInflight - 1
    /\ reqs' = [reqs EXCEPT ![r].pc = "done", ![r].status = StatusRequestTimeout,
                            ![r].dec = @ + 1]
    /\ httpRequestsTotal' =
         RecordHTTPRequest(httpRequestsTotal, "GET", "/api/v1/work", StatusRequestTimeout)
    /\ zeroSeen' = ZeroSeenAfter(workJobsInflight - 1)
    /\ UNCHANGED <<mainPc, drainPc, quit, ctxDone, tickPending, shutdownComplete,
                   listenerOpen, gsResult, exitCode, flushed, drainStarts, observedZero,
                   deadlineInflight>>

\* SIGINT or SIGTERM is delivered: signal.Notify(quit, ...) sends without
\* blocking, a signal that finds the buffer full is dropped
Signal ==
    /\ ProcessAlive
    /\ quit' = 1
    /\ UNCHANGED <<workJobsInflight, workFailuresTotal, reqs, httpRequestsTotal, mainPc,
                   drainPc, ctxDone, tickPending, shutdownComplete, listenerOpen,
                   gsResult, exitCode, flushed, drainStarts, observedZero, zeroSeen,
                   deadlineInflight>>

\* a signal handler that starts a drain for every signal it gets
MainAwaitSignalReentrant ==
    /\ mainPc \in {"wait_signal", "gs_select"}
    /\ quit = 1
    /\ quit' = 0
    /\ mainPc' = "gs_select"
    /\ drainPc' = "select"
    /\ drainStarts' = drainStarts + 1
    /\ zeroSeen' = (workJobsInflight = 0)
    /\ UNCHANGED <<workJobsInflight, workFailuresTotal, reqs, httpRequestsTotal, ctxDone,
                   tickPending, shutdownComplete, listenerOpen, gsResult, exitCode,
                   flushed, observedZero, deadlineInflight>>

\* main: <-quit; context.WithTimeout; gracefulShutdown(...) starts the drain
\* goroutine (which creates its ticker) and waits in its select
MainAwaitSignal ==
    /\ mainPc = "wait_signal"
    /\ quit = 1
    /\ quit' = 0
    /\ mainPc' = "gs_select"
    /\ drainPc' = "select"
    /\ drainStarts' = drainStarts + 1
    /\ zeroSeen' = (workJobsInflight = 0)
    /\ UNCHANGED <<workJobsInflight, workFailuresTotal, reqs, httpRequestsTotal, ctxDone,
                   tickPending, shutdownComplete, listenerOpen, gsResult, exitCode,
                   flushed, observedZero, deadlineInflight>>

\* the deadline of context.WithTimeout passes
Deadline ==
    /\ ProcessAlive
    /\ mainPc # "wait_signal"
    /\ ~ctxDone
    /\ ctxDone' = TRUE
    /\ deadlineInflight' = workJobsInflight
    /\ UNCHANGED <<workJobsInflight, workFailuresTotal, reqs, httpRequestsTotal, mainPc,
                   drainPc, quit, tickPending, shutdownComplete, listenerOpen, gsResult,
                   exitCode, flushed, drainStarts, observedZero, zeroSeen>>

\* time.NewTicker(1 * time.Second) delivers a tick (its channel holds one)
Tick ==
    /\ ProcessAlive
    /\ drainPc \notin {"none", "done"}
    /\ ~tickPending
    /\ tickPending' = TRUE
    /\ UNCHANGED <<workJobsInflight, workFailuresTotal, reqs, httpRequestsTotal, mainPc,
                   drainPc, quit, ctxDone, shutdownComplete, listenerOpen, gsResult,
                   exitCode, flushed, drainStarts, observedZero, zeroSeen,
                   deadlineInflight>>

\* drain goroutine, select: case <-ctx.Done(): shutdownComplete <- ctx.Err()
\* with nil sent in place of the context's error
DrainSelectCtxDoneSendsNil ==
    /\ ProcessAlive
    /\ drainPc = "select"
    /\ ctxDone
    /\ drainPc' = "send_nil"
    /\ UNCHANGED <<workJobsInflight, workFailuresTotal, reqs, httpRequestsTotal,
                   mainPc, quit, ctxDone, tickPending, shutdownComplete, listenerOpen,
                   gsResult, exitCode, flushed, drainStarts, observedZero, zeroSeen,
                   deadlineInflight>>

\* drain goroutine, select: case <-ctx.Done(): shutdownComplete <- ctx.Err()
DrainSelectCtxDone ==
    /\ ProcessAlive
    /\ drainPc = "select"
    /\ ctxDone
    /\ drainPc' = "send_err"
    /\ UNCHANGED <<workJobsInflight, workFailuresTotal, reqs, httpRequestsTotal,
                   mainPc, quit, ctxDone, tickPending, shutdownComplete, listenerOpen,
                   gsResult, exitCode, flushed, drainStarts, observedZero, zeroSeen,
                   deadlineInflight>>

\* drain goroutine, select: case <-ticker.C: inflightJobs := GetInflightJobs();
\* the break on 0 leaves the select only, a non-zero count is logged
DrainSelectTick ==
    /\ ProcessAlive
    /\ drainPc = "select"
    /\ tickPending
    /\ tickPending' = FALSE
    /\ observedZero' = (observedZero \/ GetInflightJobs = 0)
    /\ drainPc' = "recheck"
    /\ UNCHANGED <<workJobsInflight, workFailuresTotal, reqs, httpRequestsTotal,
                   mainPc, quit, ctxDone, shutdownComplete, listenerOpen, gsResult,
                   exitCode, flushed, drainStarts, zeroSeen, deadlineInflight>>

\* the loop left after the first tick whatever the gauge reads
DrainRecheckAlwaysBreaks ==
    /\ ProcessAlive
    /\ drainPc = "recheck"
    /\ observedZero' = (observedZero \/ GetInflightJobs = 0)
    /\ drainPc' = "shutdown"
    /\ UNCHANGED <<workJobsInflight, workFailuresTotal, reqs, httpRequestsTotal,
                   mainPc, quit, ctxDone, tickPending, shutdownComplete, listenerOpen,
                   gsResult, exitCode, flushed, drainStarts, zeroSeen,
                   deadlineInflight>>

\* drain goroutine after the select: if GetInflightJobs() == 0 { break }
DrainRecheck ==
    /\ ProcessAlive
    /\ drainPc = "recheck"
    /\ observedZero' = (observedZero \/ GetInflightJobs = 0)
    /\ drainPc' = IF GetInflightJobs = 0 THEN "shutdown" ELSE "select"
    /\ UNCHANGED <<workJobsInflight, workFailuresTotal, reqs, httpRequestsTotal,
                   mainPc, quit, ctxDone, tickPending, shutdownComplete, listenerOpen,
                   gsResult, exitCode, flushed, drainStarts, zeroSeen,
                   deadlineInflight>>

\* server.Shutdown(ctx) starts: the listeners are closed
ServerShutdownBegin ==
    /\ ProcessAlive
    /\ drainPc = "shutdown"
    /\ listenerOpen' = FALSE
    /\ drainPc' = "shutdown_wait"
    /\ UNCHANGED <<workJobsInflight, workFailuresTotal, reqs, httpRequestsTotal,
                   mainPc, quit, ctxDone, tickPending, shutdownComplete, gsResult,
                   exitCode, flushed, drainStarts, observedZero, zeroSeen,
                   deadlineInflight>>

\* server.Shutdown(ctx) returning nil while handlers still run
ServerShutdownReturnNoWait ==
    /\ ProcessAlive
    /\ drainPc = "shutdown_wait"
    /\ \/ /\ ~ctxDone
          /\ drainPc' \in {"flush", "send_lnerr"}
       \/ /\ ctxDone
          /\ drainPc' = "send_err"
    /\ UNCHANGED <<workJobsInflight, workFailuresTotal, reqs, httpRequestsTotal,
                   mainPc, quit, ctxDone, tickPending, shutdownComplete, listenerOpen,
                   gsResult, exitCode, flushed, drainStarts, observedZero, zeroSeen,
                   deadlineInflight>>

\* server.Shutdown(ctx) returns: nil once no connection is active, the
\* context's error if the context expires before that, or the error of
\* closing a listener
ServerShutdownReturn ==
    /\ ProcessAlive
    /\ drainPc = "shutdown_wait"
    /\ \/ /\ ~ctxDone
          /\ \A r \in Reqs : reqs[r].pc # "working"
          /\ drainPc' \in {"flush", "send_lnerr"}
       \/ /\ ctxDone
          /\ drainPc' = "send_err"
    /\ UNCHANGED <<workJobsInflight, workFailuresTotal, reqs, httpRequestsTotal,
                   mainPc, quit, ctxDone, tickPending, shutdownComplete, listenerOpen,
                   gsResult, exitCode, flushed, drainStarts, observedZero, zeroSeen,
                   deadlineInflight>>

\* metricsRegistry.Flush(); an error is logged as a warning
Flush ==
    /\ ProcessAlive
    /\ drainPc = "flush"
    /\ flushed' = TRUE
    /\ drainPc' = "send_nil"
    /\ UNCHANGED <<workJobsInflight, workFailuresTotal, reqs, httpRequestsTotal,
                   mainPc, quit, ctxDone, tickPending, shutdownComplete, listenerOpen,
                   gsResult, exitCode, drainStarts, observedZero, zeroSeen,
                   deadlineInflight>>

SendValue(pc) ==
    IF pc = "send_nil" THEN Nil
    ELSE IF pc = "send_lnerr" THEN ListenerError ELSE DeadlineExceeded

\* the send on a channel made without a buffer: it needs main at its receive
DrainSendUnbuffered ==
    /\ ProcessAlive
    /\ drainPc \in {"send_nil", "send_err", "send_lnerr"}
    /\ mainPc = "gs_select"
    /\ shutdownComplete = <<>>
    /\ shutdownComplete' = Append(shutdownComplete, SendValue(drainPc))
    /\ drainPc' = "done"
    /\ UNCHANGED <<workJobsInflight, workFailuresTotal, reqs, httpRequestsTotal,
                   mainPc, quit, ctxDone, tickPending, listenerOpen, gsResult,
                   exitCode, flushed, drainStarts, observedZero, zeroSeen,
                   deadlineInflight>>

\* shutdownComplete <- err, then the goroutine returns (ticker.Stop())
DrainSend ==
    /\ ProcessAlive
    /\ drainPc \in {"send_nil", "send_err", "send_lnerr"}
    /\ Len(shutdownComplete) < ShutdownCompleteCap
    /\ shutdownComplete' = Append(shutdownComplete, SendValue(drainPc))
    /\ drainPc' = "done"
    /\ UNCHANGED <<workJobsInflight, workFailuresTotal, reqs, httpRequestsTotal,
                   mainPc, quit, ctxDone, tickPending, listenerOpen, gsResult,
                   exitCode, flushed, drainStarts, observedZero, zeroSeen,
                   deadlineInflight>>

\* gracefulShutdown, select: case err := <-shutdownComplete: return err
GracefulShutdownComplete ==
    /\ mainPc = "gs_select"
    /\ shutdownComplete # <<>>
    /\ gsResult' = Head(shutdownComplete)
    /\ shutdownComplete' = Tail(shutdownComplete)
    /\ mainPc' = "gs_returned"
    /\ UNCHANGED <<workJobsInflight, workFailuresTotal, reqs, httpRequestsTotal,
                   drainPc, quit, ctxDone, tickPending, listenerOpen, exitCode,
                   flushed, drainStarts, observedZero, zeroSeen, deadlineInflight>>

\* gracefulShutdown, select: case <-ctx.Done(): return ctx.Err()
GracefulShutdownCtxDone ==
    /\ mainPc = "gs_select"
    /\ ctxDone
    /\ gsResult' = DeadlineExceeded
    /\ mainPc' = "gs_returned"
    /\ UNCHANGED <<workJobsInflight, workFailuresTotal, reqs, httpRequestsTotal,
                   drainPc, quit, ctxDone, tickPending, shutdownComplete, listenerOpen,
                   exitCode, flushed, drainStarts, observedZero, zeroSeen,
                   deadlineInflight>>

\* main ending with status 0 whatever gracefulShutdown returned
MainExitAlwaysZero ==
    /\ mainPc = "gs_returned"
    /\ exitCode' = 0
    /\ mainPc' = "exited"
    /\ UNCHANGED <<workJobsInflight, workFailuresTotal, reqs, httpRequestsTotal,
                   drainPc, quit, ctxDone, tickPending, shutdownComplete, listenerOpen,
                   gsResult, flushed, drainStarts, observedZero, zeroSeen,
                   deadlineInflight>>

\* main: if err != nil { logger.Error(...); os.Exit(1) }; else main returns
MainExit ==
    /\ mainPc = "gs_returned"
    /\ exitCode' = IF gsResult = Nil THEN 0 ELSE 1
    /\ mainPc' = "exited"
    /\ UNCHANGED <<workJobsInflight, workFailuresTotal, reqs, httpRequestsTotal,
                   drainPc, quit, ctxDone, tickPending, shutdownComplete, listenerOpen,
                   gsResult, flushed, drainStarts, observedZero, zeroSeen,
                   deadlineInflight>>

NextShutdown ==
    \/ \E r \in Reqs : WorkStart(r)
    \/ \E r \in Reqs : WorkCompleted(r)
    \/ \E r \in Reqs : WorkCancelled(r)
    \/ Signal
    \/ MainAwaitSignal
    \/ Deadline
    \/ Tick
    \/ DrainSelectCtxDone
    \/ DrainSelectTick
    \/ DrainRecheck
    \/ ServerShutdownBegin
    \/ ServerShutdownReturn
    \/ Flush
    \/ DrainSend
    \/ GracefulShutdownComplete
    \/ GracefulShutdownCtxDone
    \/ MainExit

(***************************************************************************)
(* SpecHealth: the health Checker.  AddCheck, RemoveCheck and              *)
(* SetForceFailure each write one field under a lock and are one step; a   *)
(* GET /readyz runs ReadinessHandler and CheckReadiness step by step, so    *)
(* the writers interleave with it.  A CheckFunc is what it returns: nil or  *)
(* an error message.                                                       *)
(***************************************************************************)
CheckNames == {"db", "cache"}

CheckMessages == {"connection refused"}

\* type HealthCheckError struct { Component, Message string }
HealthCheckError(component, message) == [Component |-> component, Message |-> message]

\* the nil error
NilError == HealthCheckError("", "")

\* what a CheckFunc may return
CheckFuncs == {NilError.Message} \cup CheckMessages

Forced == HealthCheckError("forced", "readiness check forced to fail for testing")

\* func (e *HealthCheckError) Error() string
Error(e) == <<"health check failed for ", e.Component, ": ", e.Message>>

\* make(map[string]CheckFunc)
NoChecks == [n \in {} |-> ""]

\* rlock: the CheckReadiness call holds c.mu.RLock()
IdleCall == [pc |-> "idle", force |-> FALSE, snapshot |-> NoChecks, todo |-> {},
             invoked |-> {}, err |-> NilError, status |-> 0, body |-> <<>>,
             rlock |-> FALSE]

\* NewChecker()
InitHealth ==
    /\ checks = NoChecks
    /\ forceFailure = FALSE
    /\ hc = IdleCall
    /\ forceHist = [last |-> FALSE, ever |-> FALSE]

\* c.mu.Lock() waits while a reader holds c.mu; c.checks[name] = check;
\* deferred c.mu.Unlock()
AddCheck(name, check) ==
    /\ ~hc.rlock
    /\ checks' = [n \in DOMAIN checks \cup {name} |-> IF n = name THEN check ELSE checks[n]]
    /\ UNCHANGED <<forceFailure, hc, forceHist>>

\* c.mu.Lock() waits while a reader holds c.mu; delete(c.checks, name);
\* deferred c.mu.Unlock()
RemoveCheck(name) ==
    /\ ~hc.rlock
    /\ checks' = [n \in DOMAIN checks \ {name} |-> checks[n]]
    /\ UNCHANGED <<forceFailure, hc, forceHist>>

\* a flag that, once set, stays set
SetForceFailureSticky(fail) ==
    /\ forceFailure' = (forceFailure \/ fail)
    /\ forceHist' = [last |-> fail, ever |-> forceHist.ever \/ fail]
    /\ UNCHANGED <<checks, hc>>

\* c.forceFailure = fail
SetForceFailure(fail) ==
    /\ forceFailure' = fail
    /\ forceHist' = [last |-> fail, ever |-> forceHist.ever \/ fail]
    /\ UNCHANGED <<checks, hc>>

\* ReadinessHandler is entered and calls checker.CheckReadiness(ctx)
ReadinessHandlerCall ==
    /\ hc.pc = "idle"
    /\ hc' = [hc EXCEPT !.pc = "force"]
    /\ UNCHANGED <<checks, forceFailure, forceHist>>

\* CheckReadiness with the force-failure test left out
CheckReadinessForceSkipped ==
    /\ hc.pc = "force"
    /\ hc' = [hc EXCEPT !.force = forceFailure, !.pc = "snapshot"]
    /\ UNCHANGED <<checks, forceFailure, forceHist>>

\* if c.IsForceFailure() { return &HealthCheckError{Component: "forced", ...} }
CheckReadinessForce ==
    /\ hc.pc = "force"
    /\ hc' = [hc EXCEPT !.force = forceFailure,
                        !.err = IF forceFailure THEN Forced ELSE NilError,
                        !.pc = IF forceFailure THEN "respond" ELSE "snapshot"]
    /\ UNCHANGED <<checks, forceFailure, forceHist>>

\* the snapshot taken with the read lock released only when CheckReadiness
\* returns
CheckReadinessSnapshotDeferredRUnlock ==
    /\ hc.pc = "snapshot"
    /\ hc' = [hc EXCEPT !.snapshot = checks, !.todo = DOMAIN checks, !.pc = "range",
                        !.rlock = TRUE]
    /\ UNCHANGED <<checks, forceFailure, forceHist>>

\* c.mu.RLock(); copy c.checks into a fresh map; c.mu.RUnlock().  AddCheck
\* and RemoveCheck hold c.mu within one step only, so RLock never waits.
CheckReadinessSnapshot ==
    /\ hc.pc = "snapshot"
    /\ hc' = [hc EXCEPT !.snapshot = checks, !.todo = DOMAIN checks, !.pc = "range",
                        !.rlock = FALSE]
    /\ UNCHANGED <<checks, forceFailure, forceHist>>

\* the loop going on after a failed check and returning nil at its end
CheckReadinessRangeIgnoresError ==
    /\ hc.pc = "range"
    /\ IF hc.todo = {}
       THEN hc' = [hc EXCEPT !.err = NilError, !.pc = "respond"]
       ELSE \E name \in hc.todo :
              hc' = [hc EXCEPT !.invoked = @ \cup {name}, !.todo = @ \ {name}]
    /\ UNCHANGED <<checks, forceFailure, forceHist>>

\* the loop remembering a failed check, going on, and returning the last
\* failure at its end
CheckReadinessRangeKeepsGoing ==
    /\ hc.pc = "range"
    /\ IF hc.todo = {}
       THEN hc' = [hc EXCEPT !.pc = "respond"]
       ELSE \E name \in hc.todo :
              hc' = [hc EXCEPT !.invoked = @ \cup {name}, !.todo = @ \ {name},
                               !.err = IF hc.snapshot[name] # NilError.Message
                                       THEN HealthCheckError(name, hc.snapshot[name])
                                       ELSE @]
    /\ UNCHANGED <<checks, forceFailure, forceHist>>

\* for name, check := range checks { if err := check(ctx); err != nil {
\* return &HealthCheckError{name, err.Error()} } }; return nil.  A map is
\* ranged over in an order the runtime picks.
CheckReadinessRange ==
    /\ hc.pc = "range"
    /\ IF hc.todo = {}
       THEN hc' = [hc EXCEPT !.err = NilError, !.pc = "respond"]
       ELSE \E name \in hc.todo :
              IF hc.snapshot[name] # NilError.Message
              THEN hc' = [hc EXCEPT !.invoked = @ \cup {name},
                                    !.err = HealthCheckError(name, hc.snapshot[name]),
                                    !.pc = "respond"]
              ELSE hc' = [hc EXCEPT !.invoked = @ \cup {name}, !.todo = @ \ {name}]
    /\ UNCHANGED <<checks, forceFailure, forceHist>>

\* ReadinessHandler: 503 "Not Ready: " + err.Error(), or 200 "Ready"
ReadinessHandlerRespond ==
    /\ hc.pc = "respond"
    /\ hc' = [hc EXCEPT
                !.status = IF hc.err # NilError THEN StatusServiceUnavailable ELSE StatusOK,
                !.body = IF hc.err # NilError THEN <<"Not Ready: ">> \o Error(hc.err)
                         ELSE <<"Ready">>,
                !.pc = "done"]
    /\ UNCHANGED <<checks, forceFailure, forceHist>>

\* the response is sent; the next GET /readyz may come
ReadinessHandlerReturn ==
    /\ hc.pc = "done"
    /\ hc' = IdleCall
    /\ UNCHANGED <<checks, forceFailure, forceHist>>

NextHealth ==
    \/ \E name \in CheckNames, check \in CheckFuncs : AddCheck(name, check)
    \/ \E name \in CheckNames : RemoveCheck(name)
    \/ \E fail \in BOOLEAN : SetForceFailure(fail)
    \/ ReadinessHandlerCall
    \/ CheckReadinessForce
    \/ CheckReadinessSnapshot
    \/ CheckReadinessRange
    \/ ReadinessHandlerRespond
    \/ ReadinessHandlerReturn

(***************************************************************************)
(* SpecWork: one GET /api/v1/work, called on the handler directly (as the  *)
(* handler tests do) or served through NewRouter, with the Toggle Store    *)
(* disabled so that fault injection lets it pass.  Query values are        *)
(* strings; a duration is a machine integer of IntBits bits counting ticks *)
(* of the model's clock, Millisecond ticks to the millisecond (the build   *)
(* has 64 bits and 1000000 nanoseconds).                                   *)
(***************************************************************************)
IntBits == 11

MaxParamLen == 3

\* time.Millisecond in ticks
Millisecond == 10

MaxInt == 2 ^ (IntBits - 1) - 1

MinInt == -(2 ^ (IntBits - 1))

\* the value a machine integer holds after an operation whose exact result is x
Wrap(x) == ((x - MinInt) % (2 ^ IntBits)) + MinInt

\* Go's integer division truncates toward zero
Quot(a, b) == IF a >= 0 THEN a \div b ELSE -((-a) \div b)

\* "9-", "--" and the like are the values that are not integers
ParamChars == {"0", "9", "-"}

\* r.URL.Query().Get(...): "" when the parameter is missing
Params == UNION {[1 .. n -> ParamChars] : n \in 0 .. MaxParamLen}

Digit(c) == IF c = "9" THEN 9 ELSE 0

IsDigits(s) == s # <<>> /\ \A i \in 1 .. Len(s) : s[i] \in {"0", "9"}

\* the number a string of digits writes
RECURSIVE Value(_)
Value(s) == IF s = <<>> THEN 0 ELSE 10 * Value(SubSeq(s, 1, Len(s) - 1)) + Digit(s[Len(s)])

\* strconv.Atoi: <<value, err == nil>>; a sign, then digits; a value that
\* does not fit an int is an error
Atoi(s) ==
    IF IsDigits(s)
    THEN (IF Value(s) <= MaxInt THEN <<Value(s), TRUE>> ELSE <<0, FALSE>>)
    ELSE IF s # <<>> /\ Head(s) = "-" /\ IsDigits(Tail(s))
         THEN (IF -Value(Tail(s)) >= MinInt THEN <<-Value(Tail(s)), TRUE>>
               ELSE <<0, FALSE>>)
         ELSE <<0, FALSE>>

\* Work: baseDuration from ms (default 100ms), jitterDuration from jitter
\* (default 0): time.Duration(n) * time.Millisecond when the parameter is
\* present, parses and is >= 0
ParamDuration(param, default) ==
    IF param # <<>> /\ Atoi(param)[2] /\ Atoi(param)[1] >= 0
    THEN Wrap(Atoi(param)[1] * Millisecond)
    ELSE default

\* int(d.Milliseconds())
Milliseconds(d) == Quot(d, Millisecond)

NoEcho == [requested_ms |-> 0, jitter_ms |-> 0]

NoWork == [pc |-> "none", routed |-> FALSE, msParam |-> <<>>, jitterParam |-> <<>>,
           clientCancels |-> FALSE, baseDuration |-> 0, jitterDuration |-> 0,
           totalDuration |-> 0, ctxDone |-> FALSE, cause |-> "none",
           timeoutPassed |-> FALSE, timerFired |-> FALSE, ready |-> {},
           status |-> 0, echo |-> NoEcho, inc |-> 0, dec |-> 0]

\* a request arrives: its query values, whether it comes through NewRouter,
\* and whether its caller will cancel it or has a deadline that will pass
InitWork ==
    \E ms \in Params, jitter \in Params, routed \in BOOLEAN, cancels \in BOOLEAN :
        wk = [NoWork EXCEPT !.pc = "new", !.routed = routed, !.msParam = ms,
                            !.jitterParam = jitter, !.clientCancels = cancels]

\* the part of SpecWork's state the Work request does not touch
workFrame == <<reqs, mainPc, drainPc, quit, ctxDone, tickPending, shutdownComplete,
               listenerOpen, gsResult, exitCode, flushed, drainStarts, observedZero,
               zeroSeen, deadlineInflight>>

\* Work, lines 91-119: the parameters, then the total with a random jitter
\* in [0, jitterDuration)
WorkParse ==
    /\ wk.pc = "new"
    /\ LET base == ParamDuration(wk.msParam, Wrap(100 * Millisecond))
           jit == ParamDuration(wk.jitterParam, 0)
       IN \E j \in (IF jit > 0 THEN {0, jit - 1} ELSE {0}) :
            wk' = [wk EXCEPT !.baseDuration = base, !.jitterDuration = jit,
                             !.totalDuration = Wrap(base + j), !.pc = "inc"]
    /\ UNCHANGED <<workJobsInflight, workFailuresTotal, httpRequestsTotal>>

\* h.metrics.IncWorkJobsInflight(); defer h.metrics.DecWorkJobsInflight()
WorkInc ==
    /\ wk.pc = "inc"
    /\ workJobsInflight' = workJobsInflight + 1
    /\ wk' = [wk EXCEPT !.inc = @ + 1, !.pc = "select"]
    /\ UNCHANGED <<workFailuresTotal, httpRequestsTotal>>

\* what a goroutine waiting in simulateWork's select does when `case` becomes
\* ready: it takes that case
Wake(w, case) ==
    IF w.pc = "blocked"
    THEN [w EXCEPT !.ready = {case}, !.pc = IF case = "ctx" THEN "cancelled" ELSE "completed"]
    ELSE w

\* the caller cancels the request's context, or the caller's deadline passes
CtxCancel ==
    /\ wk.pc \notin {"none", "done"}
    /\ wk.clientCancels
    /\ ~wk.ctxDone
    /\ wk' = Wake([wk EXCEPT !.ctxDone = TRUE, !.cause = "client"], "ctx")
    /\ UNCHANGED <<workJobsInflight, workFailuresTotal, httpRequestsTotal>>

\* middleware.Timeout(60): the request context's deadline, 60ns after the
\* request entered the pipeline, passes
CtxTimeout ==
    /\ wk.pc \notin {"none", "done"}
    /\ wk.routed
    /\ ~wk.timeoutPassed
    /\ wk' = IF wk.ctxDone
             THEN [wk EXCEPT !.timeoutPassed = TRUE]
             ELSE Wake([wk EXCEPT !.timeoutPassed = TRUE, !.ctxDone = TRUE,
                                  !.cause = "timeout"], "ctx")
    /\ UNCHANGED <<workJobsInflight, workFailuresTotal, httpRequestsTotal>>

\* simulateWork enters its select: time.After(duration) starts the timer;
\* a case that is ready is taken (either, when both are); with none ready
\* the goroutine waits.  A timer of no duration may have fired already.
SimulateWorkSelect ==
    /\ wk.pc = "select"
    /\ \E timerReady \in {FALSE, wk.totalDuration <= 0} :
         LET ready == (IF wk.ctxDone THEN {"ctx"} ELSE {})
                      \cup (IF timerReady THEN {"timer"} ELSE {})
         IN IF ready = {}
            THEN wk' = [wk EXCEPT !.pc = "blocked"]
            ELSE \E case \in ready :
                   wk' = [wk EXCEPT !.ready = ready, !.timerFired = timerReady,
                                    !.pc = IF case = "ctx" THEN "cancelled"
                                           ELSE "completed"]
    /\ UNCHANGED <<workJobsInflight, workFailuresTotal, httpRequestsTotal>>

\* the timer of time.After fires while the goroutine waits.  The 60ns of
\* middleware.Timeout(60) are less than one tick: through the router a timer
\* of a tick or more fires after that deadline has passed.
WorkTimer ==
    /\ wk.pc = "blocked"
    /\ ~wk.routed \/ wk.timeoutPassed \/ wk.totalDuration <= 0
    /\ wk' = Wake([wk EXCEPT !.timerFired = TRUE], "timer")
    /\ UNCHANGED <<workJobsInflight, workFailuresTotal, httpRequestsTotal>>

\* PrometheusMiddleware, for a request that came through NewRouter
WorkRecord(status) ==
    IF wk.routed
    THEN RecordHTTPRequest(httpRequestsTotal, "GET", "/api/v1/work", status)
    ELSE httpRequestsTotal

\* the cancellation path without IncWorkFailures
WorkCancelledUncounted ==
    /\ wk.pc = "cancelled"
    /\ workJobsInflight' = workJobsInflight - 1
    /\ wk' = [wk EXCEPT !.status = StatusRequestTimeout, !.dec = @ + 1, !.pc = "done"]
    /\ httpRequestsTotal' = WorkRecord(StatusRequestTimeout)
    /\ UNCHANGED workFailuresTotal

\* simulateWork returned ctx.Err(): IncWorkFailures("simulate_work"),
\* http.Error(w, ..., 408), return; the deferred DecWorkJobsInflight
WorkCancelledResponse ==
    /\ wk.pc = "cancelled"
    /\ workFailuresTotal' = workFailuresTotal + 1
    /\ workJobsInflight' = workJobsInflight - 1
    /\ wk' = [wk EXCEPT !.status = StatusRequestTimeout, !.dec = @ + 1, !.pc = "done"]
    /\ httpRequestsTotal' = WorkRecord(StatusRequestTimeout)

\* simulateWork returned nil: 200 with the JSON echo; the deferred
\* DecWorkJobsInflight
WorkCompletedResponse ==
    /\ wk.pc = "completed"
    /\ workJobsInflight' = workJobsInflight - 1
    /\ wk' = [wk EXCEPT !.status = StatusOK, !.dec = @ + 1, !.pc = "done",
                        !.echo = [requested_ms |-> Milliseconds(wk.baseDuration),
                                  jitter_ms |-> Milliseconds(wk.jitterDuration)]]
    /\ httpRequestsTotal' = WorkRecord(StatusOK)
    /\ UNCHANGED workFailuresTotal

NextWork ==
    \/ WorkParse
    \/ WorkInc
    \/ CtxCancel
    \/ CtxTimeout
    \/ SimulateWorkSelect
    \/ WorkTimer
    \/ WorkCancelledResponse
    \/ WorkCompletedResponse

(***************************************************************************)
(* The specifications.                                                     *)
(***************************************************************************)
Init ==
    InitToggle /\ auth = NoAuth /\ InitRouter /\ InitShutdown /\ InitHealth /\ wk = NoWork

SpecToggle ==
    Init /\ [][NextToggle /\ UNCHANGED <<authVars, routerVars, shutdownVars, healthVars, workVars>>]_vars

\* one request with its Authorization header arrives at the middleware
InitRequest ==
    InitToggle /\ InitAuth /\ InitRouter /\ InitShutdown /\ InitHealth /\ wk = NoWork

SpecAuth ==
    /\ InitRequest
    /\ [][NextAuth /\ UNCHANGED <<toggleVars, routerVars, shutdownVars, healthVars,
                                      workVars>>]_vars

SpecRouter ==
    Init /\ [][NextRouter /\ UNCHANGED <<authVars, shutdownVars, checks, hc, forceHist,
                                      workVars>>]_vars

SpecShutdown ==
    Init /\ [][NextShutdown /\ UNCHANGED <<toggleVars, authVars, lastReq, lastResp, served,
                                           healthVars, workVars>>]_vars

\* the runtime schedules main, and the context's timer fires
FairShutdown ==
    /\ SpecShutdown
    /\ WF_shutdownVars(Deadline)
    /\ WF_shutdownVars(GracefulShutdownComplete \/ GracefulShutdownCtxDone)
    /\ WF_shutdownVars(MainExit)

\* SpecRouter with a handler that panics among the handlers
SpecRouterPanic ==
    Init /\ [][NextRouterPanic /\ UNCHANGED <<authVars, shutdownVars, checks, hc, forceHist,
                                      workVars>>]_vars

SpecRouterAll ==
    Init /\ [][NextRouterAll /\ UNCHANGED <<authVars, workJobsInflight, workFrame, checks,
                                            hc, forceHist, workVars>>]_vars

SpecHealth ==
    Init /\ [][NextHealth /\ UNCHANGED <<toggleVars, authVars, routerVars, shutdownVars,
                                        workVars>>]_vars

\* a request to the Work handler arrives
InitWorkRequest ==
    InitToggle /\ auth = NoAuth /\ InitRouter /\ InitShutdown /\ InitHealth /\ InitWork

SpecWork ==
    /\ InitWorkRequest
    /\ [][NextWork /\ UNCHANGED <<toggleVars, authVars, lastReq, lastResp, served,
                                  healthVars, workFrame>>]_vars

Spec == SpecRouter

(***************************************************************************)
(* Properties.                                                             *)
(***************************************************************************)
ValidErrorRateBody(b) ==
    /\ b.text = "object"
    /\ b.Rate >= 0 /\ b.Rate <= RateOne
    /\ b.StatusCode >= 500 /\ b.StatusCode <= 599

\* C1: fault injection can always be switched off: a POST
\* /api/v1/toggles/error-rate with the admin token and a valid body with
\* enabled=false is answered 200 and leaves the store disabled, and a GET
\* /api/v1/ping served while the store is disabled is answered 200.
C1_DisableAlwaysSucceeds ==
    /\ (/\ lastReq.path = "/api/v1/toggles/error-rate"
        /\ lastReq.header = bearerPrefix \o AdminToken
        /\ ValidErrorRateBody(lastReq.body)
        /\ ~lastReq.body.Enabled)
       => (lastResp.status = StatusOK /\ ~et.Enabled)
    /\ (lastReq.path = "/api/v1/ping" /\ ~et.Enabled) => lastResp.status = StatusOK

\* C2: the wrapped handler is invoked, exactly once, if and only if the
\* Authorization header is "Bearer " followed by the admin token; for every
\* other header the answer is 401 and the handler is not invoked.
C2_BearerAuthExact ==
    auth.pc = "done" =>
        IF auth.header = bearerPrefix \o auth.adminToken
        THEN auth.nextCalls = 1
        ELSE auth.nextCalls = 0 /\ auth.status = StatusUnauthorized

\* a header with the right prefix and a wrong token was refused
C2_Witness ==
    /\ auth.pc = "done"
    /\ Len(auth.header) > Len(bearerPrefix)
    /\ SubSeq(auth.header, 1, Len(bearerPrefix)) = bearerPrefix
    /\ Len(auth.header) = Len(bearerPrefix) + Len(auth.adminToken)
    /\ auth.status = StatusUnauthorized
    /\ auth.nextCalls = 0

RECURSIVE SumOf(_, _)
SumOf(S, field) ==
    IF S = {} THEN 0
    ELSE LET r == CHOOSE x \in S : TRUE IN
         (IF field = "inc" THEN reqs[r].inc ELSE reqs[r].dec) + SumOf(S \ {r}, field)

\* C3: in every reachable state the in-flight gauge is the number of Work
\* handlers between their IncWorkJobsInflight and their deferred
\* DecWorkJobsInflight; it is never negative, GetInflightJobs is increments
\* minus decrements, and it is 0 once every request has finished.
C3_InflightGaugeExact ==
    /\ workJobsInflight = Cardinality({r \in Reqs : reqs[r].pc = "working"})
    /\ workJobsInflight >= 0
    /\ GetInflightJobs = SumOf(Reqs, "inc") - SumOf(Reqs, "dec")
    /\ (\A r \in Reqs : reqs[r].pc = "done") => workJobsInflight = 0

\* all requests have finished, one of them cancelled and one completed
C3_Witness ==
    /\ \A r \in Reqs : reqs[r].pc = "done"
    /\ \E r \in Reqs : reqs[r].status = StatusRequestTimeout
    /\ \E r \in Reqs : reqs[r].status = StatusOK
    /\ workJobsInflight = 0

\* C4: on the termination signal the coordinator stops accepting first and
\* only then polls: while the drain loop polls, the listener is closed and
\* no work request is accepted and started.
C4_StopsAcceptingBeforePolling ==
    [][\A r \in Reqs :
         (reqs[r].pc = "new" /\ reqs'[r].pc = "working") => drainPc \notin DrainPolling]_vars

C6_NilOnlyWhenDrained ==
    mainPc \in {"gs_returned", "exited"} =>
        /\ gsResult = Nil =>
              (observedZero /\ ~listenerOpen /\ flushed /\ deadlineInflight <= 0)
        /\ ~zeroSeen => gsResult # Nil
        /\ mainPc = "exited" => (exitCode = 0 <=> gsResult = Nil)

\* a shutdown that drained work accepted earlier and exited 0
C6_Witness ==
    /\ mainPc = "exited"
    /\ gsResult = Nil
    /\ exitCode = 0
    /\ \E r \in Reqs : reqs[r].pc = "done"

\* C7: gracefulShutdown always returns (at the latest when the deadline has
\* passed), whether or not the in-flight count reaches zero, and the drain
\* goroutine is never blocked on its send to shutdownComplete.
C7_GracefulShutdownTerminates ==
    /\ []((ProcessAlive /\ drainPc \in {"send_nil", "send_err", "send_lnerr"})
            => ENABLED DrainSend)
    /\ [](mainPc = "gs_select" /\ ctxDone => ENABLED GracefulShutdownCtxDone)
    /\ (mainPc = "gs_select") ~> (mainPc \in {"gs_returned", "exited"})

\* gracefulShutdown returned on the deadline with work still in flight, and
\* the drain goroutine left its error in the channel's buffer and ended
C7_Witness ==
    /\ mainPc = "gs_returned"
    /\ gsResult = DeadlineExceeded
    /\ workJobsInflight > 0
    /\ drainPc = "done"
    /\ shutdownComplete = <<DeadlineExceeded>>

ShutdownState ==
    IF mainPc = "wait_signal" THEN "Running"
    ELSE IF mainPc = "exited" THEN "Stopped" ELSE "Draining"

\* C8: the shutdown state only moves Running -> Draining -> Stopped; the
\* drain is started at most once, a further signal during Draining does not
\* start it again, and after Stopped no request is served.
C8_OneWayShutdown ==
    [][/\ ShutdownState' # ShutdownState =>
             <<ShutdownState, ShutdownState'>> \in
                 {<<"Running", "Draining">>, <<"Draining", "Stopped">>}
       /\ drainStarts' <= 1
       /\ ShutdownState = "Draining" => drainStarts' = drainStarts
       /\ ShutdownState = "Stopped" =>
             (reqs' = reqs /\ httpRequestsTotal' = httpRequestsTotal)]_vars

\* a further signal is buffered while the one drain is under way
C8_Witness ==
    /\ ShutdownState = "Draining"
    /\ quit = 1
    /\ drainStarts = 1
    /\ drainPc \in DrainPolling

InSetConfig(t) == th[t].pc \in {"set_enabled", "set_rate", "set_status", "set_unlock"}

\* C9: the Toggle Store is an atomic register: while no SetConfig is writing
\* the store holds the arguments of the SetConfig that returned last,
\* unchanged and unvalidated; GetConfig returns that triple, never a mix; and
\* ShouldInjectError decides from, and returns the status of, that one triple.
C9_ToggleStoreAtomic ==
    /\ (\A t \in Threads : ~InSetConfig(t)) => et = lastSet
    /\ \A t \in Threads :
         th[t].pc = "get_runlock" =>
            th[t].ret = <<lastSet.Enabled, lastSet.Rate, lastSet.StatusCode>>
    /\ \A t \in Threads :
         th[t].pc = "sie_runlock" =>
            th[t].ret = ShouldInjectError(lastSet, th[t].sample)

\* GetConfig returns out-of-range values as stored while another goroutine
\* waits to overwrite them
C9_Witness ==
    \E t, u \in Threads :
        /\ t # u
        /\ th[t].pc = "get_runlock"
        /\ th[t].ret = <<TRUE, RateOne + 1, 600>>
        /\ th[u].pc = "set_lock"
        /\ th[u].args # lastSet

\* C10: whenever the stored configuration has enabled=false,
\* ShouldInjectError returns (false, 0), whatever rate and status are stored.
C10_DisabledNeverInjects ==
    \A t \in Threads :
        (th[t].pc = "sie_runlock" /\ ~et.Enabled) => th[t].ret = <<FALSE, 0>>

\* ShouldInjectError answered (false, 0) with rate 1.0 stored and disabled
C10_Witness ==
    \E t \in Threads :
        /\ th[t].pc = "sie_runlock"
        /\ ~et.Enabled
        /\ et.Rate = RateOne
        /\ et.StatusCode = 503
        /\ th[t].ret = <<FALSE, 0>>

\* C11: with enabled=true, for every random sample, rate 0.0 never injects
\* and returns status 0, and rate 1.0 always injects and returns the stored
\* status code.
C11_ExtremeRatesDeterministic ==
    \A t \in Threads :
        (th[t].pc = "sie_runlock" /\ et.Enabled) =>
            /\ et.Rate = 0 => th[t].ret = <<FALSE, 0>>
            /\ et.Rate = RateOne => th[t].ret = <<TRUE, et.StatusCode>>

\* with rate 1.0 stored a call injected on the largest sample, next to
\* another call that has returned
C11_Witness ==
    \E t, u \in Threads :
        /\ th[t].pc = "sie_runlock" /\ th[u].pc = "sie_ret"
        /\ et.Enabled /\ et.Rate = RateOne
        /\ th[t].sample = Granularity - 1
        /\ th[t].ret = <<TRUE, 503>>

\* C12: a CheckReadiness call that finds the force-failure flag set fails
\* with component "forced" and invokes no registered check, whatever the
\* checks would return; /readyz then answers 503.
C12_ForcedFailsWithoutChecks ==
    (hc.pc \in {"respond", "done"} /\ hc.force) =>
        /\ hc.err = Forced
        /\ hc.invoked = {}
        /\ hc.pc = "done" => hc.status = StatusServiceUnavailable

\* /readyz answered 503 "forced" while two passing checks are registered
C12_Witness ==
    /\ hc.pc = "done"
    /\ hc.force /\ forceFailure
    /\ DOMAIN checks = CheckNames
    /\ \A n \in CheckNames : checks[n] = NilError.Message
    /\ hc.status = StatusServiceUnavailable
    /\ hc.err.Component = "forced"

FailingChecks(snapshot) == {n \in DOMAIN snapshot : snapshot[n] # NilError.Message}

\* C13: with force-failure false CheckReadiness returns nil if and only if
\* every check of its snapshot returns nil; when exactly one check fails the
\* error carries that check's name and message; /readyz answers 200 "Ready"
\* on nil and 503 with a body starting "Not Ready: " otherwise.
C13_ReadinessIffAllChecksPass ==
    (hc.pc \in {"respond", "done"} /\ ~hc.force) =>
        /\ hc.err = NilError <=> FailingChecks(hc.snapshot) = {}
        /\ \A n \in CheckNames :
             FailingChecks(hc.snapshot) = {n} =>
                hc.err = HealthCheckError(n, hc.snapshot[n])
        /\ hc.pc = "done" =>
             IF hc.err = NilError
             THEN hc.status = StatusOK /\ hc.body = <<"Ready">>
             ELSE hc.status = StatusServiceUnavailable /\ Head(hc.body) = "Not Ready: "

\* of two registered checks the passing one ran first, the failing one is
\* reported, and it was removed from the registry after the snapshot
C13_Witness ==
    /\ hc.pc = "done"
    /\ ~hc.force
    /\ DOMAIN hc.snapshot = CheckNames
    /\ FailingChecks(hc.snapshot) = {"db"}
    /\ hc.invoked = CheckNames
    /\ hc.err = HealthCheckError("db", "connection refused")
    /\ hc.status = StatusServiceUnavailable
    /\ "db" \notin DOMAIN checks

\* C14: GET /healthz is answered 200 "OK" in every reachable state, whatever
\* the force-failure flag and the fault-injection configuration are.
C14_LivenessAlwaysOK ==
    lastReq.path = "/healthz" => (lastResp.status = StatusOK /\ lastResp.body = "OK")

\* /healthz answered 200, and counted as 200, with injection enabled at
\* rate 1.0
C14_Witness ==
    /\ lastReq.path = "/healthz"
    /\ lastResp.status = StatusOK
    /\ et.Enabled /\ et.Rate = RateOne
    /\ <<"GET", "/healthz", StatusOK>> \in DOMAIN httpRequestsTotal

(***************************************************************************)
(* The Work handler (SpecWork).                                            *)
(***************************************************************************)
\* what the query value `param` asks for: the integer it writes when that is
\* a non-negative integer, else the default
Given(param, default) ==
    IF IsDigits(param) THEN Value(param)
    ELSE IF param # <<>> /\ Head(param) = "-" /\ IsDigits(Tail(param))
              /\ Value(Tail(param)) = 0
         THEN 0
         ELSE default

\* C15: the Work handler never rejects a request because of its query
\* parameters, and a request it answers 200 echoes, for ms and jitter
\* independently, the non-negative integer given, or the default (100, 0)
\* for a missing, non-integer or negative value.
C15_ParamsUsedAsGiven ==
    wk.pc = "done" =>
        /\ wk.status \in {StatusOK, StatusRequestTimeout}
        /\ wk.status = StatusOK =>
            /\ wk.echo.requested_ms = Given(wk.msParam, 100)
            /\ wk.echo.jitter_ms = Given(wk.jitterParam, 0)

\* C16: when the request's cancellation or deadline signal is what
\* simulateWork's select sees first, the handler returns while the timer has
\* not fired, answers 408, has incremented work_failures_total exactly once
\* and has decremented the in-flight gauge it incremented; when the timer is
\* what it sees first, it answers 200 and the failure counter is unchanged.
C16_CancelledOrCompleted ==
    wk.pc = "done" =>
        /\ wk.ready # {}
        /\ wk.ready = {"ctx"} =>
            /\ ~wk.timerFired
            /\ wk.status = StatusRequestTimeout
            /\ workFailuresTotal = 1
            /\ wk.inc = 1 /\ wk.dec = 1 /\ workJobsInflight = 0
        /\ wk.ready = {"timer"} =>
            /\ wk.status = StatusOK
            /\ workFailuresTotal = 0
            /\ workJobsInflight = 0

\* a request for 90ms, called on the handler directly, whose caller
\* cancelled while simulateWork waited: 408, one failure counted
C16_Witness ==
    /\ wk.pc = "done"
    /\ ~wk.routed
    /\ wk.msParam = <<"9", "0">>
    /\ wk.cause = "client"
    /\ wk.ready = {"ctx"}
    /\ ~wk.timerFired
    /\ wk.status = StatusRequestTimeout
    /\ workFailuresTotal = 1

\* C17: a GET /api/v1/work with ms >= 1 served through NewRouter, not
\* fault-injected, whose client never cancels, waits for its timer and
\* answers 200; through the router a 408 is answered only when the caller's
\* own cancellation or deadline fired, never because of the deadline of
\* middleware.Timeout(60).
C17_RoutedWorkCompletesNaturally ==
    (wk.pc = "done" /\ wk.routed) =>
        /\ (IsDigits(wk.msParam) /\ Value(wk.msParam) >= 1 /\ ~wk.clientCancels) =>
            (wk.status = StatusOK /\ wk.timerFired)
        /\ wk.status = StatusRequestTimeout => wk.cause = "client"

(***************************************************************************)
(* The router: validation, panic recovery, middleware order.               *)
(***************************************************************************)
\* the names in `ran`
Names(ran) == {ran[i] : i \in 1 .. Len(ran)}

\* C18: a POST /api/v1/toggles/error-rate that reaches the handler is
\* answered 400 with the Toggle Store unchanged when its body is not valid
\* JSON, its rate is outside [0,1] or its status_code is outside [500,599];
\* otherwise it is answered 200 echoing the request and the store holds
\* exactly the requested (enabled, rate, status_code).
C18_ErrorRateValidated ==
    "ErrorRate" \in Names(lastResp.ran) =>
        IF ValidErrorRateBody(lastReq.body)
        THEN /\ lastResp.status = StatusOK
             /\ lastResp.echo = {Triple(lastReq.body.Enabled, lastReq.body.Rate,
                                        lastReq.body.StatusCode)}
             /\ et = Triple(lastReq.body.Enabled, lastReq.body.Rate,
                            lastReq.body.StatusCode)
        ELSE /\ lastResp.status = StatusBadRequest
             /\ et = lastReq.cfg

\* C19: a request whose handler panicked before anything was sent is
\* recovered by PanicRecoveryMiddleware and its client receives 500
\* "Internal Server Error".
C19_PanicAnswered500 ==
    (lastResp.recovered /\ "panic" \in Names(lastResp.ran)) =>
        /\ lastResp.status = StatusInternalServerError
        /\ lastResp.body = "Internal Server Error"

\* where `name` stands in `ran`
Pos(ran, name) == CHOOSE i \in 1 .. Len(ran) : ran[i] = name

\* `a` ran before `b`, when both ran
Before(ran, a, b) ==
    (a \in Names(ran) /\ b \in Names(ran)) => Pos(ran, a) < Pos(ran, b)

\* C20: for every request the middleware run in the documented
\* outer-to-inner order: request-id, then structured logging, then panic
\* recovery, then metrics instrumentation, then (admin routes) bearer auth,
\* then (API routes) fault injection.
C20_DocumentedMiddlewareOrder ==
    served > 0 =>
        /\ Before(lastResp.ran, "RequestIDMiddleware", "LoggingMiddleware")
        /\ Before(lastResp.ran, "LoggingMiddleware", "PanicRecoveryMiddleware")
        /\ Before(lastResp.ran, "PanicRecoveryMiddleware", "PrometheusMiddleware")
        /\ Before(lastResp.ran, "PrometheusMiddleware", "BearerTokenAuthMiddleware")
        /\ Before(lastResp.ran, "PrometheusMiddleware", "ErrorInjectionMiddleware")
        /\ Before(lastResp.ran, "BearerTokenAuthMiddleware", "ErrorInjectionMiddleware")

\* C21: the "Request completed" entry of every request records the status
\* and the byte count sent to the client, also when the handler panicked and
\* PanicRecoveryMiddleware produced the response.
C21_LogRecordsFinalResponse ==
    served > 0 =>
        /\ lastResp.log.status = lastResp.status
        /\ lastResp.log.bytes = lastResp.body

\* the counter of label l in m, 0 when it does not exist yet
Count(m, l) == IF l \in DOMAIN m THEN m[l] ELSE 0

\* C22: a request whose processing returned normally through
\* PrometheusMiddleware has added exactly one to http_requests_total, on the
\* counter labelled with the request's method, its route and the status sent
\* to the client, and has changed no other counter: also for an injected 5xx,
\* a 401 of bearer auth and a 408 of a cancelled work request.
C22_RecordedOnceWithFinalStatus ==
    (served > 0 /\ ~lastResp.recovered) =>
        LET l == <<lastReq.method, lastReq.path, lastResp.status>> IN
        /\ DOMAIN httpRequestsTotal = DOMAIN lastReq.before \cup {l}
        /\ httpRequestsTotal[l] = Count(lastReq.before, l) + 1
        /\ \A x \in DOMAIN lastReq.before :
             x # l => httpRequestsTotal[x] = lastReq.before[x]

\* a cancelled work request after another one: 408 recorded twice, two work
\* failures
C22_Witness ==
    /\ lastReq.path = "/api/v1/work"
    /\ lastResp.status = StatusRequestTimeout
    /\ Count(httpRequestsTotal, <<"GET", "/api/v1/work", StatusRequestTimeout>>) = 2
    /\ workFailuresTotal = 2

\* C23: a request that enters ErrorInjectionMiddleware has ShouldInjectError
\* called exactly once; when the call returned (true, code) the response has
\* that code and the body "Injected error for testing" and nothing was
\* entered after the middleware; when it returned false, the next handler
\* was entered, each link of it once, and the body is not the middleware's.
C23_InjectOrNextExactlyOnce ==
    "ErrorInjectionMiddleware" \in Names(lastResp.ran) =>
        LET ran == lastResp.ran
            i == Pos(ran, "ErrorInjectionMiddleware")
        IN
        /\ Len(lastResp.injectCalls) = 1
        /\ \A j \in 1 .. Len(ran) : ran[j] = "ErrorInjectionMiddleware" => j = i
        /\ IF lastResp.injectCalls[1][1]
           THEN /\ i = Len(ran)
                /\ lastResp.status = lastResp.injectCalls[1][2]
                /\ lastResp.body = "Injected error for testing"
           ELSE /\ i < Len(ran)
                /\ \A j, k \in i + 1 .. Len(ran) : ran[j] = ran[k] => j = k
                /\ lastResp.body # "Injected error for testing"

\* the store was enabled at rate 1.0 with status 503 by an earlier request;
\* GET /api/v1/work is answered by the middleware and Work is not entered
C23_Witness ==
    /\ lastReq.path = "/api/v1/work"
    /\ lastResp.injectCalls = <<(<<TRUE, 503>>)>>
    /\ lastResp.status = 503
    /\ "Work" \notin Names(lastResp.ran)
    /\ workFailuresTotal = 0

\* the routes NewRouter mounts under /api/v1
ApiRoutes == {"/api/v1/ping", "/api/v1/work", "/api/v1/toggles/error-rate",
              "/api/v1/toggles/readiness"}

\* C24: a request to /healthz, /readyz or /metrics never enters the
\* fault-injection middleware, whatever the Toggle Store holds; a response
\* written by the fault-injection short-circuit belongs to a route under
\* /api/v1.
C24_InjectionOnlyUnderApi ==
    served > 0 =>
        /\ lastReq.path \in {"/healthz", "/readyz", "/metrics"} =>
            /\ "ErrorInjectionMiddleware" \notin Names(lastResp.ran)
            /\ lastResp.injectCalls = <<>>
            /\ lastResp.body # "Injected error for testing"
        /\ (\E j \in 1 .. Len(lastResp.injectCalls) : lastResp.injectCalls[j][1]) =>
            lastReq.path \in ApiRoutes

\* GET /metrics answered 200 while the store injects at rate 1.0
C24_Witness ==
    /\ lastReq.path = "/metrics"
    /\ lastReq.cfg.Enabled
    /\ lastReq.cfg.Rate = RateOne
    /\ lastResp.status = StatusOK
    /\ lastResp.body = "metrics"

(***************************************************************************)
(* The health Checker (SpecHealth), continued.                             *)
(***************************************************************************)
\* C25: a CheckReadiness call that fails on a check has invoked exactly one
\* failing check, the one its error names with that check's message; every
\* other check it invoked passed, and the checks it had not reached are not
\* invoked.
C25_StopsAtFirstFailure ==
    (hc.pc \in {"respond", "done"} /\ ~hc.force /\ hc.err # NilError) =>
        /\ hc.err.Component \in FailingChecks(hc.snapshot)
        /\ hc.err.Message = hc.snapshot[hc.err.Component]
        /\ hc.invoked \cap FailingChecks(hc.snapshot) = {hc.err.Component}
        /\ hc.invoked \cap hc.todo = {hc.err.Component}

\* two failing checks registered: "cache" came first in the range, "db" was
\* not invoked
C25_Witness ==
    /\ hc.pc = "done"
    /\ FailingChecks(hc.snapshot) = CheckNames
    /\ hc.invoked = {"cache"}
    /\ hc.err = HealthCheckError("cache", "connection refused")
    /\ hc.status = StatusServiceUnavailable

(***************************************************************************)
(* The Toggle Store behind the router (SpecRouterAll).                     *)
(***************************************************************************)
\* C26: from NewErrorToggle() and with the store changed only by requests to
\* the router, the store always holds a rate in [0,1] and a status code in
\* [500,599], and every injected response carries a 5xx status.
C26_StoreAlwaysValidated ==
    /\ et.Rate >= 0 /\ et.Rate <= RateOne
    /\ et.StatusCode >= 500 /\ et.StatusCode <= 599
    /\ \A j \in 1 .. Len(lastResp.injectCalls) :
         lastResp.injectCalls[j][1] =>
            (lastResp.status >= 500 /\ lastResp.status <= 599)

\* the store set to the ends of both ranges by a POST, and the next request
\* answered with the injected 599
C26_Witness ==
    /\ et = Triple(TRUE, RateOne, 599)
    /\ lastResp.injectCalls = <<(<<TRUE, 599>>)>>
    /\ lastResp.status = 599

(***************************************************************************)
(* The Toggle Store (SpecToggle), continued.                               *)
(***************************************************************************)
\* C27: with the toggle enabled ShouldInjectError returns the pair
\* (sample < rate, statusCode): the stored status code is the second
\* component also when the sample is not below the rate.
C27_EnabledReturnsStatusCode ==
    \A t \in Threads :
        (th[t].pc = "sie_runlock" /\ et.Enabled) =>
            th[t].ret = <<th[t].sample < et.Rate, et.StatusCode>>

(***************************************************************************)
(* Panic recovery (SpecRouterPanic), continued.                            *)
(***************************************************************************)
\* C28: when a handler panicked after it had written its header, the client
\* receives what the handler wrote and nothing more: PanicRecoveryMiddleware
\* adds neither a status nor a body.
C28_RecoveryWritesNothingAfterHeaders ==
    "panic after write" \in Names(lastResp.ran) =>
        /\ lastResp.recovered
        /\ lastResp.status = StatusOK
        /\ lastResp.body = "partial"

(***************************************************************************)
(* The Work handler (SpecWork), continued.                                 *)
(***************************************************************************)
\* C29: the duration Work hands to simulateWork is the base plus a jitter
\* drawn from [0, jitter): at least the base and below base + jitter when
\* jitter > 0, and exactly the base when jitter = 0.
C29_TotalWithinJitter ==
    wk.pc \notin {"none", "new"} =>
        IF wk.jitterDuration > 0
        THEN /\ wk.totalDuration >= wk.baseDuration
             /\ wk.totalDuration < wk.baseDuration + wk.jitterDuration
        ELSE wk.totalDuration = wk.baseDuration

(***************************************************************************)
(* The health Checker (SpecHealth): no cached state.                       *)
(***************************************************************************)
\* what CheckReadiness may return given the flag and the checks it read
Outcomes(force, snapshot) ==
    IF force THEN {Forced}
    ELSE IF FailingChecks(snapshot) = {} THEN {NilError}
         ELSE {HealthCheckError(n, snapshot[n]) : n \in FailingChecks(snapshot)}

\* C30: the force-failure flag is what the last SetForceFailure call set
\* (false when there was none), and the result of a CheckReadiness call is
\* determined by the flag and the checks that call read: after calls ending
\* with SetForceFailure(false) readiness is as if the flag had never been
\* set.
C30_NoCachedReadiness ==
    /\ forceFailure = forceHist.last
    /\ hc.pc \in {"respond", "done"} => hc.err \in Outcomes(hc.force, hc.snapshot)
    /\ (hc.pc = "done" /\ ~hc.force /\ FailingChecks(hc.snapshot) = {}) =>
         hc.status = StatusOK

\* the flag was set and cleared again; /readyz answers 200 with a passing
\* check registered
C30_Witness ==
    /\ forceHist.ever /\ ~forceHist.last
    /\ ~forceFailure
    /\ hc.pc = "done"
    /\ ~hc.force
    /\ DOMAIN hc.snapshot = {"db"}
    /\ hc.status = StatusOK

(***************************************************************************)
(* The admin routes (SpecRouter).                                          *)
(***************************************************************************)
\* C31: a POST /api/v1/toggles/readiness that reaches the handler with a
\* valid JSON body sets the force-failure flag to the body's force_failure
\* and is answered 200 echoing it; with a body that is not valid JSON it is
\* answered 400 and the flag keeps its value.
C31_ToggleReadinessSetsFlag ==
    [][(served' = served + 1 /\ "ToggleReadiness" \in Names(lastResp'.ran)) =>
         IF lastReq'.body.text = "object"
         THEN /\ lastResp'.status = StatusOK
              /\ lastResp'.echo = {[ForceFailure |-> lastReq'.body.ForceFailure]}
              /\ forceFailure' = lastReq'.body.ForceFailure
         ELSE /\ lastResp'.status = StatusBadRequest
              /\ forceFailure' = forceFailure]_vars

\* C32: a request that does not carry "Bearer " followed by the admin token
\* changes neither the Toggle Store nor the force-failure flag, whatever
\* route, body and store state it meets: runs that differ only in such
\* requests go through the same store and flag states.
C32_UnauthenticatedChangesNothing ==
    [][(served' = served + 1 /\ lastReq'.header # bearerPrefix \o AdminToken) =>
         (et' = et /\ forceFailure' = forceFailure)]_vars

\* an enabling, valid error-rate body sent with a wrong header: 401 from the
\* auth middleware, the store as before
C32_Witness ==
    /\ lastReq.path = "/api/v1/toggles/error-rate"
    /\ lastReq.header # bearerPrefix \o AdminToken
    /\ lastReq.header # <<>>
    /\ ValidErrorRateBody(lastReq.body)
    /\ lastReq.body.Enabled
    /\ lastResp.status = StatusUnauthorized
    /\ "ErrorRate" \notin Names(lastResp.ran)
    /\ et = lastReq.cfg
    /\ ~et.Enabled

\* C33: a request whose handler panicked has added exactly one to the
\* http_requests_total counter labelled with its method, its route and
\* status 500.
C33_PanicCountedOnce ==
    (served > 0 /\ lastResp.recovered) =>
        LET l == <<lastReq.method, lastReq.path, StatusInternalServerError>> IN
        Count(httpRequestsTotal, l) = Count(lastReq.before, l) + 1

\* the drain goroutine is at or past its call of server.Shutdown on the
\* success path
PastDrainLoop == drainPc \in {"shutdown", "shutdown_wait", "flush", "send_nil", "send_lnerr"}

\* C34: gracefulShutdown calls server.Shutdown only after a read of the
\* in-flight count returned 0: the drain goroutine is past its loop, or the
\* listener closed, only if a zero was read.  While no read has returned 0
\* and the deadline has not passed, the drain goroutine is still polling, the
\* listener is open and every request not yet sent can be accepted.
C34_ShutdownOnlyAfterZeroRead ==
    /\ (PastDrainLoop \/ ~listenerOpen) => observedZero
    /\ (mainPc # "wait_signal" /\ ~ctxDone /\ ~observedZero) =>
          /\ drainPc \in DrainPolling
          /\ listenerOpen
          /\ \A r \in Reqs : reqs[r].pc = "new" => ENABLED WorkStart(r)

\* the tick's read found work in flight: the loop goes on, the listener is
\* open and a second request can still come in
C34_Witness ==
    /\ drainPc = "recheck"
    /\ ~observedZero
    /\ ~ctxDone
    /\ workJobsInflight = 1
    /\ listenerOpen
    /\ \E r \in Reqs : reqs[r].pc = "new" /\ ENABLED WorkStart(r)

\* C35: once gracefulShutdown has returned nil no simulated work is
\* executing, then or later: the in-flight gauge is 0, no Work handler is
\* between its increment and its deferred decrement, and every request that
\* was accepted between the last zero read and the call of server.Shutdown
\* has finished.
C35_NilMeansNoWorkRunning ==
    (mainPc \in {"gs_returned", "exited"} /\ gsResult = Nil) =>
        /\ GetInflightJobs = 0
        /\ \A r \in Reqs : reqs[r].pc # "working"
        /\ \A r \in Reqs : reqs[r].late => (reqs[r].pc = "done" /\ reqs[r].dec = 1)

\* gracefulShutdown returned nil after a request had come in between the
\* zero read and server.Shutdown, and that request ran to completion
C35_Witness ==
    /\ mainPc = "gs_returned"
    /\ gsResult = Nil
    /\ \E r \in Reqs : reqs[r].late /\ reqs[r].status = StatusOK

\* C36: when nothing is in flight at the signal and no work request ever
\* starts, gracefulShutdown returns nil (a failure to close a listener
\* aside), however soon after the call the deadline passes: it does not
\* need a tick of the poll ticker first.
C36_IdleShutdownNeedsNoTick ==
    (/\ mainPc \in {"gs_returned", "exited"}
     /\ \A r \in Reqs : reqs[r].pc = "new"
     /\ gsResult # ListenerError)
        => gsResult = Nil

(***************************************************************************)
(* The health Checker (SpecHealth): snapshot and registry lock.            *)
(***************************************************************************)
\* C37: CheckReadiness takes as its snapshot the registry as it is at that
\* instant and keeps it to its end; it invokes checks of the snapshot only,
\* all of them when it returns nil; it holds no registry lock after the
\* snapshot, so AddCheck and RemoveCheck can always run, also while checks
\* run, and they change the registry without changing the call in progress.
C37_SnapshotWithoutRegistryLock ==
    [][/\ (hc.pc = "snapshot" /\ hc'.pc = "range") =>
             (hc'.snapshot = checks /\ hc'.todo = DOMAIN checks /\ hc'.invoked = {})
       /\ hc.pc \in {"range", "respond"} => hc'.snapshot = hc.snapshot
       /\ hc'.invoked \subseteq DOMAIN hc'.snapshot
       /\ (hc.pc = "range" /\ hc'.pc = "respond" /\ hc'.err = NilError) =>
             hc'.invoked = DOMAIN hc.snapshot
       /\ ~hc'.rlock
       /\ \A name \in CheckNames :
             /\ ENABLED RemoveCheck(name)
             /\ \A check \in CheckFuncs : ENABLED AddCheck(name, check)
       /\ checks' # checks => hc' = hc]_vars

\* CheckReadiness returns the failure of "cache", which was removed from the
\* registry after the snapshot; "db", added after the snapshot, was not
\* evaluated
C37_Witness ==
    /\ hc.pc = "respond"
    /\ ~hc.force
    /\ DOMAIN hc.snapshot = {"cache"}
    /\ hc.invoked = {"cache"}
    /\ hc.err = HealthCheckError("cache", "connection refused")
    /\ DOMAIN checks = {"db"}

\* C38: the validation of POST /api/v1/toggles/error-rate does not look at
\* the enabled field: a request that reaches the handler with a decodable
\* body is answered 400, the store left as it was, exactly when its rate is
\* outside [0,1] or its status_code is outside [500,599], for enabled true
\* and false alike; a body carrying only enabled=false (rate and status_code
\* decode to 0) is answered 400 and the previous configuration stays.
C38_ValidationIgnoresEnabled ==
    ("ErrorRate" \in Names(lastResp.ran) /\ Decode(lastReq.body)) =>
        LET b == lastReq.body
            inRange == /\ b.Rate >= 0 /\ b.Rate <= RateOne
                       /\ b.StatusCode >= 500 /\ b.StatusCode <= 599
        IN /\ lastResp.status = StatusBadRequest <=> ~inRange
           /\ lastResp.status = StatusOK <=> inRange
           /\ ~inRange => et = lastReq.cfg
           /\ inRange => et = Triple(b.Enabled, b.Rate, b.StatusCode)
           /\ b = Body(FALSE, 0, 0) =>
                 (lastResp.status = StatusBadRequest /\ et = lastReq.cfg)

\* injection is enabled; the body {"enabled":false} is answered 400 and
\* injection stays enabled
C38_Witness ==
    /\ "ErrorRate" \in Names(lastResp.ran)
    /\ lastReq.body = Body(FALSE, 0, 0)
    /\ lastReq.cfg.Enabled
    /\ lastResp.status = StatusBadRequest
    /\ et.Enabled
    /\ et = lastReq.cfg
=============================================================================
